---- MODULE Spec2Model ----
(***************************************************************************)
(* A model of the error-handling core of the Gallifrey client:             *)
(*   - the normalizers of src/utils/errorHandler.ts (parseError,           *)
(*     parseSupabaseError, parseNetworkError) as operators over modelled   *)
(*     JavaScript values,                                                  *)
(*   - the hooks of src/hooks/useErrorHandler.ts (useErrorHandler and      *)
(*     useAsyncOperation) as state machines over React state cells,        *)
(*   - the ErrorBoundary class component as a state machine driven by the  *)
(*     React render / commit protocol.                                     *)
(*                                                                         *)
(* JavaScript strings whose content the code inspects are sequences of     *)
(* one-character strings, so that String.prototype.includes is a real      *)
(* substring search.  Opaque identifiers (error codes, severities,         *)
(* SQLSTATE codes, context labels, alert titles) are TLA+ strings.         *)
(***************************************************************************)
EXTENDS Integers, Sequences, FiniteSets, TLC

\* ---- Message phrases that the normalizers search for ----
\* "Invalid login credentials"  (errorHandler.ts:322)
S_InvalidLoginCredentials == <<"I","n","v","a","l","i","d"," ","l","o","g",
    "i","n"," ","c","r","e","d","e","n","t","i","a","l","s">>
\* "JWT"  (errorHandler.ts:332)
S_JWT == <<"J","W","T">>
\* "token"  (errorHandler.ts:332)
S_token == <<"t","o","k","e","n">>
\* "permission denied"  (errorHandler.ts:365)
S_permissionDenied == <<"p","e","r","m","i","s","s","i","o","n"," ","d",
    "e","n","i","e","d">>
\* "RLS"  (errorHandler.ts:365)
S_RLS == <<"R","L","S">>
\* "timeout"  (errorHandler.ts:389)
S_timeout == <<"t","i","m","e","o","u","t">>
\* "Network request failed"  (errorHandler.ts:399)
S_NetworkRequestFailed == <<"N","e","t","w","o","r","k"," ","r","e","q",
    "u","e","s","t"," ","f","a","i","l","e","d">>

\* ---- Other phrases used to build failure messages ----
\* "network request failed"  (lower-case variant)
S_networkRequestFailedLower == <<"n","e","t","w","o","r","k"," ","r","e",
    "q","u","e","s","t"," ","f","a","i","l","e","d">>
\* "duplicate key"  (a unique-violation message)
S_duplicateKey == <<"d","u","p","l","i","c","a","t","e"," ","k","e","y">>
\* "boom"  (an arbitrary message)
S_boom == <<"b","o","o","m">>
\* "bad input"  (an arbitrary validation message)
S_badInput == <<"b","a","d"," ","i","n","p","u","t">>

\* ---- Fixed messages produced by the normalizers and factories ----
\* "Database operation failed"  (errorHandler.ts:317)
S_DatabaseOperationFailed == <<"D","a","t","a","b","a","s","e"," ","o","p",
    "e","r","a","t","i","o","n"," ","f","a","i","l","e","d">>
\* "An unknown error occurred"  (errorHandler.ts:305)
S_AnUnknownErrorOccurred == <<"A","n"," ","u","n","k","n","o","w","n"," ",
    "e","r","r","o","r"," ","o","c","c","u","r","r","e","d">>
\* "Invalid email or password"  (errorHandler.ts:324)
S_InvalidEmailOrPassword == <<"I","n","v","a","l","i","d"," ","e","m","a",
    "i","l"," ","o","r"," ","p","a","s","s","w","o","r","d">>
\* "Your session has expired. Please log in again."  (errorHandler.ts:334)
S_SessionExpired == <<"Y","o","u","r"," ","s","e","s","s","i","o","n"," ",
    "h","a","s"," ","e","x","p","i","r","e","d","."," ","P","l","e","a",
    "s","e"," ","l","o","g"," ","i","n"," ","a","g","a","i","n",".">>
\* "This item already exists"  (errorHandler.ts:345)
S_ThisItemAlreadyExists == <<"T","h","i","s"," ","i","t","e","m"," ","a",
    "l","r","e","a","d","y"," ","e","x","i","s","t","s">>
\* "Referenced item not found"  (errorHandler.ts:356)
S_ReferencedItemNotFound == <<"R","e","f","e","r","e","n","c","e","d"," ",
    "i","t","e","m"," ","n","o","t"," ","f","o","u","n","d">>
\* "You do not have permission to perform this action"  (errorHandler.ts:367)
S_NoPermission == <<"Y","o","u"," ","d","o"," ","n","o","t"," ","h","a",
    "v","e"," ","p","e","r","m","i","s","s","i","o","n"," ","t","o"," ",
    "p","e","r","f","o","r","m"," ","t","h","i","s"," ","a","c","t","i",
    "o","n">>
\* "Request timed out. Please check your connection and try again."  (errorHandler.ts:391)
S_RequestTimedOut == <<"R","e","q","u","e","s","t"," ","t","i","m","e","d",
    " ","o","u","t","."," ","P","l","e","a","s","e"," ","c","h","e","c",
    "k"," ","y","o","u","r"," ","c","o","n","n","e","c","t","i","o","n",
    " ","a","n","d"," ","t","r","y"," ","a","g","a","i","n",".">>
\* "Unable to connect. Please check your internet connection."  (errorHandler.ts:401)
S_UnableToConnect == <<"U","n","a","b","l","e"," ","t","o"," ","c","o","n",
    "n","e","c","t","."," ","P","l","e","a","s","e"," ","c","h","e","c",
    "k"," ","y","o","u","r"," ","i","n","t","e","r","n","e","t"," ","c",
    "o","n","n","e","c","t","i","o","n",".">>
\* "A network error occurred. Please try again."  (errorHandler.ts:410)
S_ANetworkErrorOccurred == <<"A"," ","n","e","t","w","o","r","k"," ","e",
    "r","r","o","r"," ","o","c","c","u","r","r","e","d","."," ","P","l",
    "e","a","s","e"," ","t","r","y"," ","a","g","a","i","n",".">>

\* ---- User-facing messages of getUserFriendlyMessage ----
\* "Unable to connect. Please check your internet connection and try again."  (errorHandler.ts:426)
M_NETWORK_ERROR == <<"U","n","a","b","l","e"," ","t","o"," ","c","o","n",
    "n","e","c","t","."," ","P","l","e","a","s","e"," ","c","h","e","c",
    "k"," ","y","o","u","r"," ","i","n","t","e","r","n","e","t"," ","c",
    "o","n","n","e","c","t","i","o","n"," ","a","n","d"," ","t","r","y",
    " ","a","g","a","i","n",".">>
\* "Something went wrong. Please try again later."  (errorHandler.ts:427)
M_API_ERROR == <<"S","o","m","e","t","h","i","n","g"," ","w","e","n","t",
    " ","w","r","o","n","g","."," ","P","l","e","a","s","e"," ","t","r",
    "y"," ","a","g","a","i","n"," ","l","a","t","e","r",".">>
\* "Request timed out. Please try again."  (errorHandler.ts:428)
M_TIMEOUT_ERROR == <<"R","e","q","u","e","s","t"," ","t","i","m","e","d",
    " ","o","u","t","."," ","P","l","e","a","s","e"," ","t","r","y"," ",
    "a","g","a","i","n",".">>
\* "Please log in to continue."  (errorHandler.ts:430)
M_UNAUTHORIZED == <<"P","l","e","a","s","e"," ","l","o","g"," ","i","n",
    " ","t","o"," ","c","o","n","t","i","n","u","e",".">>
\* "You do not have permission to perform this action."  (errorHandler.ts:431)
M_FORBIDDEN == <<"Y","o","u"," ","d","o"," ","n","o","t"," ","h","a","v",
    "e"," ","p","e","r","m","i","s","s","i","o","n"," ","t","o"," ","p",
    "e","r","f","o","r","m"," ","t","h","i","s"," ","a","c","t","i","o",
    "n",".">>
\* "Your session has expired. Please log in again."  (errorHandler.ts:432)
M_SESSION_EXPIRED == <<"Y","o","u","r"," ","s","e","s","s","i","o","n"," ",
    "h","a","s"," ","e","x","p","i","r","e","d","."," ","P","l","e","a",
    "s","e"," ","l","o","g"," ","i","n"," ","a","g","a","i","n",".">>
\* "Invalid email or password. Please try again."  (errorHandler.ts:433)
M_INVALID_CREDENTIALS == <<"I","n","v","a","l","i","d"," ","e","m","a","i",
    "l"," ","o","r"," ","p","a","s","s","w","o","r","d","."," ","P","l",
    "e","a","s","e"," ","t","r","y"," ","a","g","a","i","n",".">>
\* "Please check your input and try again."  (errorHandler.ts:435)
M_VALIDATION_DEFAULT == <<"P","l","e","a","s","e"," ","c","h","e","c","k",
    " ","y","o","u","r"," ","i","n","p","u","t"," ","a","n","d"," ","t",
    "r","y"," ","a","g","a","i","n",".">>
\* "Please enter a valid email address."  (errorHandler.ts:436)
M_INVALID_EMAIL == <<"P","l","e","a","s","e"," ","e","n","t","e","r"," ",
    "a"," ","v","a","l","i","d"," ","e","m","a","i","l"," ","a","d","d",
    "r","e","s","s",".">>
\* "Password must be at least 8 characters long."  (errorHandler.ts:437)
M_INVALID_PASSWORD == <<"P","a","s","s","w","o","r","d"," ","m","u","s",
    "t"," ","b","e"," ","a","t"," ","l","e","a","s","t"," ","8"," ","c",
    "h","a","r","a","c","t","e","r","s"," ","l","o","n","g",".">>
\* "Your content is too long. Please shorten it."  (errorHandler.ts:438)
M_CONTENT_TOO_LONG == <<"Y","o","u","r"," ","c","o","n","t","e","n","t",
    " ","i","s"," ","t","o","o"," ","l","o","n","g","."," ","P","l","e",
    "a","s","e"," ","s","h","o","r","t","e","n"," ","i","t",".">>
\* "Please enter some content."  (errorHandler.ts:439)
M_CONTENT_EMPTY == <<"P","l","e","a","s","e"," ","e","n","t","e","r"," ",
    "s","o","m","e"," ","c","o","n","t","e","n","t",".">>
\* "Failed to upload media. Please try again."  (errorHandler.ts:441)
M_MEDIA_UPLOAD_FAILED == <<"F","a","i","l","e","d"," ","t","o"," ","u","p",
    "l","o","a","d"," ","m","e","d","i","a","."," ","P","l","e","a","s",
    "e"," ","t","r","y"," ","a","g","a","i","n",".">>
\* "File is too large. Please choose a smaller file."  (errorHandler.ts:442)
M_MEDIA_TOO_LARGE == <<"F","i","l","e"," ","i","s"," ","t","o","o"," ","l",
    "a","r","g","e","."," ","P","l","e","a","s","e"," ","c","h","o","o",
    "s","e"," ","a"," ","s","m","a","l","l","e","r"," ","f","i","l","e",
    ".">>
\* "Invalid file type. Please choose an image or video."  (errorHandler.ts:443)
M_INVALID_MEDIA_TYPE == <<"I","n","v","a","l","i","d"," ","f","i","l","e",
    " ","t","y","p","e","."," ","P","l","e","a","s","e"," ","c","h","o",
    "o","s","e"," ","a","n"," ","i","m","a","g","e"," ","o","r"," ","v",
    "i","d","e","o",".">>
\* "Failed to process media. Please try a different file."  (errorHandler.ts:444)
M_MEDIA_COMPRESSION_FAILED == <<"F","a","i","l","e","d"," ","t","o"," ",
    "p","r","o","c","e","s","s"," ","m","e","d","i","a","."," ","P","l",
    "e","a","s","e"," ","t","r","y"," ","a"," ","d","i","f","f","e","r",
    "e","n","t"," ","f","i","l","e",".">>
\* "Something went wrong. Please try again."  (errorHandler.ts:446)
M_DATABASE_ERROR == <<"S","o","m","e","t","h","i","n","g"," ","w","e","n",
    "t"," ","w","r","o","n","g","."," ","P","l","e","a","s","e"," ","t",
    "r","y"," ","a","g","a","i","n",".">>
\* "Item not found."  (errorHandler.ts:447)
M_NOT_FOUND == <<"I","t","e","m"," ","n","o","t"," ","f","o","u","n","d",
    ".">>
\* "This item already exists."  (errorHandler.ts:448)
M_DUPLICATE_ENTRY == <<"T","h","i","s"," ","i","t","e","m"," ","a","l","r",
    "e","a","d","y"," ","e","x","i","s","t","s",".">>
\* "An unexpected error occurred. Please try again."  (errorHandler.ts:450)
M_UNKNOWN_DEFAULT == <<"A","n"," ","u","n","e","x","p","e","c","t","e","d",
    " ","e","r","r","o","r"," ","o","c","c","u","r","r","e","d","."," ",
    "P","l","e","a","s","e"," ","t","r","y"," ","a","g","a","i","n",".">>
\* "An error occurred. Please try again."  (errorHandler.ts:453)
M_FALLBACK == <<"A","n"," ","e","r","r","o","r"," ","o","c","c","u","r",
    "r","e","d","."," ","P","l","e","a","s","e"," ","t","r","y"," ","a",
    "g","a","i","n",".">>

\* ---- JavaScript values ----
\* The JavaScript value undefined, where it is an opaque property value.
Undefined == "undefined"

\* A JavaScript value that is not an AppError: t is its runtime type
\* ("Error" for an instance of Error, "object" for any other non-null
\* object, "string", "null", "undefined"), str the content of a string,
\* hasMessage / message its message property, hasCode / code its code
\* property.  A property that holds undefined is there (hasCode TRUE) with
\* the value Undefined; RawValue builds the values whose code property,
\* when there is one, holds a string.
\* The message property may hold any JavaScript value: messageType is its
\* type ("string", "number", "boolean", "null", "undefined", "object" for
\* a plain object, "array" for an array of strings), message is
\* String(message) and messageItems the elements of an array.  RawValue
\* builds the values whose message, when there is one, is a string.
RawValue(t, str, hasMessage, message, code) ==
    [t |-> t, str |-> str, hasMessage |-> hasMessage, message |-> message,
     messageType |-> IF hasMessage THEN "string" ELSE "undefined",
     messageItems |-> <<>>,
     hasCode |-> code # Undefined, code |-> code]

Null == RawValue("null", <<>>, FALSE, <<>>, Undefined)

Undef == RawValue("undefined", <<>>, FALSE, <<>>, Undefined)

StringValue(s) == RawValue("string", s, FALSE, <<>>, Undefined)

ErrorValue(message, code) == RawValue("Error", <<>>, TRUE, message, code)

ObjectValue(hasMessage, message, code) ==
    RawValue("object", <<>>, hasMessage, message, code)

\* The value v with an own code property that holds undefined, as in
\* { message: 'm', code: undefined }.
WithUndefinedCode(v) == [v EXCEPT !.hasCode = TRUE, !.code = Undefined]

\* The value v with a message property that holds a value of the given
\* type which is no string and no array; text is String(message), as in
\* { message: 42 } (type "number", text "42").
WithMessage(v, type, text) ==
    [v EXCEPT !.hasMessage = TRUE, !.messageType = type, !.message = text,
              !.messageItems = <<>>]

RECURSIVE ArrayToString(_)
\* String(items) of an array of strings: the elements joined by commas.
ArrayToString(items) ==
    IF items = <<>> THEN <<>>
    ELSE IF Len(items) = 1 THEN items[1]
    ELSE items[1] \o <<",">> \o ArrayToString(Tail(items))

\* The value v with a message property that holds an array of strings, as
\* in { message: ['timeout'] }.
WithArrayMessage(v, items) ==
    [v EXCEPT !.hasMessage = TRUE, !.messageType = "array",
              !.message = ArrayToString(items), !.messageItems = items]

\* What a call leaves behind: the value it returned or the value it threw,
\* each a sequence of zero or one value.
Returned(v) == [returned |-> <<v>>, thrown |-> <<>>]

Thrown(v) == [returned |-> <<>>, thrown |-> <<v>>]

\* The TypeError the engine throws; its message is the text V8 gives it.
TypeError(message) == [name |-> "TypeError"] @@ ErrorValue(message, Undefined)

\* "message.includes is not a function"
S_MessageIncludesIsNotAFunction ==
    <<"m","e","s","s","a","g","e",".","i","n","c","l","u","d","e","s"," ",
      "i","s"," ","n","o","t"," ","a"," ","f","u","n","c","t","i","o","n">>

\* "error?.message?.includes is not a function"
S_ErrorMessageIncludesIsNotAFunction ==
    <<"e","r","r","o","r","?",".","m","e","s","s","a","g","e","?",".","i",
      "n","c","l","u","d","e","s"," ","i","s"," ","n","o","t"," ","a"," ",
      "f","u","n","c","t","i","o","n">>

\* "Cannot read properties of null (reading 'message')"
S_CannotReadMessageOfNull ==
    <<"C","a","n","n","o","t"," ","r","e","a","d"," ","p","r","o","p","e",
      "r","t","i","e","s"," ","o","f"," ","n","u","l","l"," ","(","r","e",
      "a","d","i","n","g"," ","'","m","e","s","s","a","g","e","'",")">>

\* "Cannot read properties of undefined (reading 'message')"
S_CannotReadMessageOfUndefined ==
    <<"C","a","n","n","o","t"," ","r","e","a","d"," ","p","r","o","p","e",
      "r","t","i","e","s"," ","o","f"," ","u","n","d","e","f","i","n","e",
      "d"," ","(","r","e","a","d","i","n","g"," ","'","m","e","s","s","a",
      "g","e","'",")">>

\* String.prototype.includes: needle occurs in s as a contiguous substring.
Includes(s, needle) ==
    \E i \in 0..(Len(s) - Len(needle)) :
        SubSeq(s, i + 1, i + Len(needle)) = needle

\* value?.message : the message property read through optional chaining,
\* as a sequence of zero (undefined) or one element.  A message property
\* that holds undefined reads as undefined, like one that is not there.
MessageOf(v) ==
    IF /\ v.t \in {"AppError", "Error", "object"}
       /\ v.hasMessage
       /\ (v.t = "AppError" \/ v.messageType # "undefined")
    THEN <<v.message>> ELSE <<>>

\* typeof value?.message ("array" for an array, "null" for null); the
\* message of an AppError is the string its constructor stored.
MessageType(v) ==
    IF v.t = "AppError" THEN "string"
    ELSE IF v.t \in {"Error", "object"} /\ v.hasMessage THEN v.messageType
    ELSE "undefined"

\* Truthiness of value?.message: the empty string, 0, NaN, false, null and
\* undefined are falsy.
MessageTruthy(v) ==
    LET type == MessageType(v)
    IN  CASE type = "string" -> v.message # <<>>
          [] type = "number" -> v.message \notin {<<"0">>, <<"N","a","N">>}
          [] type = "boolean" -> v.message = <<"t","r","u","e">>
          [] type \in {"object", "array"} -> TRUE
          [] OTHER -> FALSE

\* Whether value.message has a method named includes: strings
\* (String.prototype.includes) and arrays (Array.prototype.includes) have.
HasIncludes(v) == MessageType(v) \in {"string", "array"}

\* value.message.includes(needle): a substring of a string, an element of
\* an array.
MessageIncludes(v, needle) ==
    IF MessageType(v) = "array"
    THEN \E i \in DOMAIN v.messageItems : v.messageItems[i] = needle
    ELSE Includes(v.message, needle)

\* value?.code
CodeOf(v) == IF v.t \in {"AppError", "Error", "object"} THEN v.code ELSE Undefined

\* ---- ErrorCode and ErrorSeverity (src/utils/errorHandler.ts) ----
ErrorCode ==
    {"NETWORK_ERROR", "API_ERROR", "TIMEOUT_ERROR",
     "UNAUTHORIZED", "FORBIDDEN", "SESSION_EXPIRED", "INVALID_CREDENTIALS",
     "VALIDATION_ERROR", "INVALID_EMAIL", "INVALID_PASSWORD",
     "CONTENT_TOO_LONG", "CONTENT_EMPTY",
     "MEDIA_UPLOAD_FAILED", "MEDIA_TOO_LARGE", "INVALID_MEDIA_TYPE",
     "MEDIA_COMPRESSION_FAILED",
     "DATABASE_ERROR", "NOT_FOUND", "DUPLICATE_ENTRY",
     "UNKNOWN_ERROR"}

ErrorSeverity == {"INFO", "WARNING", "ERROR", "CRITICAL"}

\* The metadata object handed to the AppError constructor: the context
\* label, the backend code and the retained original value (a sequence of
\* zero or one value).  The timestamp the constructor stamps and the backend
\* details are carried along unread and are left out.
Metadata(context, code, originalData) ==
    [context |-> context, code |-> code, originalData |-> originalData]

\* new AppError(message, code, severity, isOperational, metadata,
\* originalError); originalError is a sequence of zero or one value.
AppError(message, code, severity, isOperational, metadata, originalError) ==
    [t |-> "AppError", str |-> <<>>, hasMessage |-> TRUE,
     message |-> message, code |-> code, severity |-> severity,
     isOperational |-> isOperational, metadata |-> metadata,
     originalError |-> originalError]

\* ---- Error factories ----
networkError(message, originalError, context) ==
    AppError(message, "NETWORK_ERROR", "ERROR", TRUE,
             Metadata(context, Undefined, <<>>), originalError)

validationError(message, context) ==
    AppError(message, "VALIDATION_ERROR", "INFO", TRUE,
             Metadata(context, Undefined, <<>>), <<>>)

\* ---- Normalizers ----
\* The message the Error constructor stores for super(error.message):
\* String(message), and the empty string for undefined.
ErrorMessage(error) ==
    IF MessageType(error) = "undefined" THEN <<>> ELSE error.message

\* A parseError that wraps an AppError anew like any other Error.
parseError_rewrap(error, context) ==
    IF error.t \in {"AppError", "Error"} THEN
        AppError(ErrorMessage(error), "UNKNOWN_ERROR", "ERROR", TRUE,
                 Metadata(context, Undefined, <<>>), <<error>>)
    ELSE IF error.t = "string" THEN
        AppError(error.str, "UNKNOWN_ERROR", "ERROR", TRUE,
                 Metadata(context, Undefined, <<>>), <<>>)
    ELSE IF error.t = "object" /\ error.hasMessage THEN
        AppError(error.message, "UNKNOWN_ERROR", "ERROR", TRUE,
                 Metadata(context, Undefined, <<error>>), <<>>)
    ELSE
        AppError(S_AnUnknownErrorOccurred, "UNKNOWN_ERROR", "ERROR", TRUE,
                 Metadata(context, Undefined, <<error>>), <<>>)

\* A parseError without the branch for objects that carry a message.
parseError_noMessageBranch(error, context) ==
    IF error.t = "AppError" THEN error
    ELSE IF error.t = "Error" THEN
        AppError(ErrorMessage(error), "UNKNOWN_ERROR", "ERROR", TRUE,
                 Metadata(context, Undefined, <<>>), <<error>>)
    ELSE IF error.t = "string" THEN
        AppError(error.str, "UNKNOWN_ERROR", "ERROR", TRUE,
                 Metadata(context, Undefined, <<>>), <<>>)
    ELSE
        AppError(S_AnUnknownErrorOccurred, "UNKNOWN_ERROR", "ERROR", TRUE,
                 Metadata(context, Undefined, <<error>>), <<>>)

\* parseError: instanceof AppError, instanceof Error, typeof string,
\* object with a message property, anything else; the first test that
\* succeeds decides.
parseError(error, context) ==
    IF error.t = "AppError" THEN error
    ELSE IF error.t = "Error" THEN
        AppError(ErrorMessage(error), "UNKNOWN_ERROR", "ERROR", TRUE,
                 Metadata(context, Undefined, <<>>), <<error>>)
    ELSE IF error.t = "string" THEN
        AppError(error.str, "UNKNOWN_ERROR", "ERROR", TRUE,
                 Metadata(context, Undefined, <<>>), <<>>)
    ELSE IF error.t = "object" /\ error.hasMessage THEN
        AppError(error.message, "UNKNOWN_ERROR", "ERROR", TRUE,
                 Metadata(context, Undefined, <<error>>), <<>>)
    ELSE
        AppError(S_AnUnknownErrorOccurred, "UNKNOWN_ERROR", "ERROR", TRUE,
                 Metadata(context, Undefined, <<error>>), <<>>)

\* parseSupabaseError: the message phrases of the authentication failures
\* are tested before the SQLSTATE codes, the permission phrases after them.
\* message is error?.message when that is truthy and the fixed text
\* otherwise; the first message.includes(...) throws a TypeError when the
\* message has no such method.
parseSupabaseError(error, context) ==
    LET given == MessageTruthy(error)
        message == IF given THEN error.message ELSE S_DatabaseOperationFailed
        includes(needle) ==
            IF given THEN MessageIncludes(error, needle)
            ELSE Includes(S_DatabaseOperationFailed, needle)
        code == CodeOf(error)
        meta == Metadata(context, code, <<>>)
    IN  IF given /\ ~HasIncludes(error) THEN
            Thrown(TypeError(S_MessageIncludesIsNotAFunction))
        ELSE IF includes(S_InvalidLoginCredentials) THEN
            Returned(AppError(S_InvalidEmailOrPassword, "INVALID_CREDENTIALS",
                              "INFO", TRUE, meta, <<>>))
        ELSE IF includes(S_JWT) \/ includes(S_token) THEN
            Returned(AppError(S_SessionExpired, "SESSION_EXPIRED", "WARNING",
                              TRUE, meta, <<>>))
        ELSE IF code = "23505" THEN
            Returned(AppError(S_ThisItemAlreadyExists, "DUPLICATE_ENTRY",
                              "INFO", TRUE, meta, <<>>))
        ELSE IF code = "23503" THEN
            Returned(AppError(S_ReferencedItemNotFound, "NOT_FOUND", "ERROR",
                              TRUE, meta, <<>>))
        ELSE IF includes(S_permissionDenied) \/ includes(S_RLS) THEN
            Returned(AppError(S_NoPermission, "FORBIDDEN", "WARNING",
                              TRUE, meta, <<>>))
        ELSE
            Returned(AppError(message, "DATABASE_ERROR", "ERROR", TRUE, meta,
                              <<>>))

\* error?.message?.includes(needle) of parseNetworkError once the method is
\* known to be there: undefined (falsy) when the message is null or
\* undefined.
NetworkIncludes(error, needle) ==
    /\ MessageType(error) \notin {"undefined", "null"}
    /\ MessageIncludes(error, needle)

\* error?.message?.includes is called on a message that is neither null nor
\* undefined and has no such method.
NetworkIncludesThrows(error) ==
    /\ MessageType(error) \notin {"undefined", "null"}
    /\ ~HasIncludes(error)

\* A parseNetworkError that searches "Network request failed" first.
parseNetworkError_connectionFirst(error, context) ==
    IF NetworkIncludesThrows(error) THEN
        Thrown(TypeError(S_ErrorMessageIncludesIsNotAFunction))
    ELSE IF NetworkIncludes(error, S_NetworkRequestFailed) THEN
        Returned(AppError(S_UnableToConnect, "NETWORK_ERROR", "ERROR", TRUE,
                          Metadata(context, Undefined, <<>>), <<>>))
    ELSE IF NetworkIncludes(error, S_timeout) THEN
        Returned(AppError(S_RequestTimedOut, "TIMEOUT_ERROR", "ERROR", TRUE,
                          Metadata(context, Undefined, <<>>), <<>>))
    ELSE
        Returned(networkError(S_ANetworkErrorOccurred,
                              IF error.t = "undefined" THEN <<>>
                              ELSE <<error>>,
                              context))

\* parseNetworkError: "timeout" is searched first, then
\* "Network request failed"; anything else is a generic network error that
\* keeps the original value.  The first includes call throws a TypeError
\* when the message is there and has no such method.
parseNetworkError(error, context) ==
    IF NetworkIncludesThrows(error) THEN
        Thrown(TypeError(S_ErrorMessageIncludesIsNotAFunction))
    ELSE IF NetworkIncludes(error, S_timeout) THEN
        Returned(AppError(S_RequestTimedOut, "TIMEOUT_ERROR", "ERROR", TRUE,
                          Metadata(context, Undefined, <<>>), <<>>))
    ELSE IF NetworkIncludes(error, S_NetworkRequestFailed) THEN
        Returned(AppError(S_UnableToConnect, "NETWORK_ERROR", "ERROR", TRUE,
                          Metadata(context, Undefined, <<>>), <<>>))
    ELSE
        Returned(networkError(S_ANetworkErrorOccurred,
                              IF error.t = "undefined" THEN <<>>
                              ELSE <<error>>,
                              context))

\* ---- User-facing texts ----
\* The keys an object literal inherits from Object.prototype.
ObjectPrototypeKeys ==
    {"constructor", "hasOwnProperty", "isPrototypeOf", "propertyIsEnumerable",
     "toLocaleString", "toString", "valueOf", "__proto__",
     "__defineGetter__", "__defineSetter__", "__lookupGetter__",
     "__lookupSetter__"}

\* The value an object literal gives for an inherited key: the method of
\* Object.prototype of that name, and Object.prototype itself for
\* __proto__.  Each of them is truthy and none is a string.
PrototypeMember(key) ==
    IF key = "__proto__"
    THEN [t |-> "object", name |-> "Object.prototype"]
    ELSE [t |-> "function", name |-> key]

\* A getUserFriendlyMessage that shows the raw message whenever there is
\* one, whatever the code.
getUserFriendlyMessage_rawFirst(code, defaultMessage) ==
    LET hasDefault == defaultMessage # <<>> /\ defaultMessage[1] # <<>>
    IN  IF hasDefault THEN defaultMessage[1]
        ELSE CASE code = "NOT_FOUND" -> M_NOT_FOUND
               [] code = "VALIDATION_ERROR" -> M_VALIDATION_DEFAULT
               [] code = "UNKNOWN_ERROR" -> M_UNKNOWN_DEFAULT
               [] code \in ObjectPrototypeKeys -> PrototypeMember(code)
               [] OTHER -> M_FALLBACK

\* getUserFriendlyMessage(code, defaultMessage); defaultMessage is a
\* sequence of zero (undefined) or one string, and an empty string is falsy.
\* messages is an object literal, so messages[code] finds the members of
\* Object.prototype for a code that names one, and returns it.
getUserFriendlyMessage(code, defaultMessage) ==
    LET hasDefault == defaultMessage # <<>> /\ defaultMessage[1] # <<>>
    IN  CASE code = "NETWORK_ERROR" -> M_NETWORK_ERROR
          [] code = "API_ERROR" -> M_API_ERROR
          [] code = "TIMEOUT_ERROR" -> M_TIMEOUT_ERROR
          [] code = "UNAUTHORIZED" -> M_UNAUTHORIZED
          [] code = "FORBIDDEN" -> M_FORBIDDEN
          [] code = "SESSION_EXPIRED" -> M_SESSION_EXPIRED
          [] code = "INVALID_CREDENTIALS" -> M_INVALID_CREDENTIALS
          [] code = "VALIDATION_ERROR" ->
                IF hasDefault THEN defaultMessage[1] ELSE M_VALIDATION_DEFAULT
          [] code = "INVALID_EMAIL" -> M_INVALID_EMAIL
          [] code = "INVALID_PASSWORD" -> M_INVALID_PASSWORD
          [] code = "CONTENT_TOO_LONG" -> M_CONTENT_TOO_LONG
          [] code = "CONTENT_EMPTY" -> M_CONTENT_EMPTY
          [] code = "MEDIA_UPLOAD_FAILED" -> M_MEDIA_UPLOAD_FAILED
          [] code = "MEDIA_TOO_LARGE" -> M_MEDIA_TOO_LARGE
          [] code = "INVALID_MEDIA_TYPE" -> M_INVALID_MEDIA_TYPE
          [] code = "MEDIA_COMPRESSION_FAILED" -> M_MEDIA_COMPRESSION_FAILED
          [] code = "DATABASE_ERROR" -> M_DATABASE_ERROR
          [] code = "NOT_FOUND" -> M_NOT_FOUND
          [] code = "DUPLICATE_ENTRY" -> M_DUPLICATE_ENTRY
          [] code = "UNKNOWN_ERROR" ->
                IF hasDefault THEN defaultMessage[1] ELSE M_UNKNOWN_DEFAULT
          [] code \in ObjectPrototypeKeys -> PrototypeMember(code)
          [] OTHER -> IF hasDefault THEN defaultMessage[1] ELSE M_FALLBACK

\* AppError.getUserMessage()
getUserMessage(error) == getUserFriendlyMessage(error.code, <<error.message>>)

\* getErrorTitle(code) of the hooks module: the alert title per code;
\* titles[code] || 'Error' on an object literal.
getErrorTitle(code) ==
    CASE code = "NETWORK_ERROR" -> "Connection Error"
      [] code = "TIMEOUT_ERROR" -> "Request Timeout"
      [] code = "UNAUTHORIZED" -> "Authentication Required"
      [] code = "FORBIDDEN" -> "Access Denied"
      [] code = "SESSION_EXPIRED" -> "Session Expired"
      [] code = "INVALID_CREDENTIALS" -> "Invalid Credentials"
      [] code = "VALIDATION_ERROR" -> "Validation Error"
      [] code = "MEDIA_UPLOAD_FAILED" -> "Upload Failed"
      [] code = "MEDIA_TOO_LARGE" -> "File Too Large"
      [] code = "DATABASE_ERROR" -> "Database Error"
      [] code = "NOT_FOUND" -> "Not Found"
      [] code \in ObjectPrototypeKeys -> PrototypeMember(code)
      [] OTHER -> "Error"

\* ---- The Result pattern (src/utils/errorHandler.ts, src/types/api.ts) ----
\* success(data) and failure(error); the validators of src/types/validation.ts
\* build the same two object shapes as literals.
success(data) == [success |-> TRUE, data |-> data]

failure(error) == [success |-> FALSE, error |-> error]

\* An isError that tests the same flag value as isSuccess.
isError_sameFlag(result) == result.success = TRUE

isSuccess(result) == result.success = TRUE

isError(result) == result.success = FALSE

\* An assertSuccess that hands back null for a failure.
assertSuccess_nullOnFailure(result) ==
    IF result.success THEN Returned(result.data) ELSE Returned(Null)

\* assertSuccess(result): the data of a success, or throw result.error.
assertSuccess(result) ==
    IF result.success THEN Returned(result.data) ELSE Thrown(result.error)

\* withErrorHandler(fn, context)(...args) once fn has settled: settled is
\* Returned(data) when the promise of fn fulfilled and Thrown(error) when fn
\* threw or its promise rejected.
withErrorHandler(settled, context) ==
    IF settled.thrown = <<>>
    THEN success(settled.returned[1])
    ELSE failure(parseError(settled.thrown[1], context))

\* ---- ErrorCode and the error objects of src/types/api.ts ----
ApiErrorCode ==
    {"NETWORK_ERROR", "TIMEOUT_ERROR", "CONNECTION_ERROR",
     "UNAUTHORIZED", "FORBIDDEN", "SESSION_EXPIRED", "INVALID_CREDENTIALS",
     "VALIDATION_ERROR", "INVALID_INPUT", "MISSING_REQUIRED_FIELD",
     "MEDIA_UPLOAD_FAILED", "MEDIA_TOO_LARGE", "INVALID_MEDIA_TYPE",
     "MEDIA_PROCESSING_FAILED",
     "DATABASE_ERROR", "RECORD_NOT_FOUND", "DUPLICATE_RECORD",
     "RATE_LIMIT_EXCEEDED", "CONTENT_MODERATION_FAILED", "ALREADY_REACTED",
     "UNKNOWN_ERROR", "SERVER_ERROR"}

\* The factories build plain objects; the timestamp they stamp is carried
\* along unread and is left out.  An optional argument is a sequence of zero
\* or one value.
ApiObject(message, code) ==
    [RawValue("object", <<>>, TRUE, message, code) EXCEPT !.hasCode = TRUE]

\* validationError(message, field, details): details, when given, is kept
\* as the details property.
api_validationError(message, field, details) ==
    IF details = <<>>
    THEN ApiObject(message, "VALIDATION_ERROR") @@ [field |-> field]
    ELSE ApiObject(message, "VALIDATION_ERROR")
             @@ [field |-> field, details |-> details[1]]

api_networkError(message, retryable, retry_after) ==
    ApiObject(message, "NETWORK_ERROR")
        @@ [retryable |-> retryable, retry_after |-> retry_after]

authError(message, code, redirect_to_login) ==
    ApiObject(message, code) @@ [redirect_to_login |-> redirect_to_login]

\* mediaError(message, code, options): { code, message, ...options }.
\* options is the record of the options given (max_size, allowed_types,
\* file_name), the empty record when there are none; spread after code and
\* message, its properties win over them.
mediaError(message, code, options) == options @@ ApiObject(message, code)

api_databaseError(message, code, query) ==
    ApiObject(message, code) @@ [query |-> query]

rateLimitError(message, retry_after, limit, remaining) ==
    ApiObject(message, "RATE_LIMIT_EXCEEDED")
        @@ [retry_after |-> retry_after, limit |-> limit,
            remaining |-> remaining]

genericError(message, code, original_error) ==
    ApiObject(message, code) @@ [original_error |-> original_error]

\* ---- Type guards of src/types/api.ts ----
isNetworkError(error) ==
    error.code \in {"NETWORK_ERROR", "TIMEOUT_ERROR", "CONNECTION_ERROR"}

isRateLimitError(error) == error.code = "RATE_LIMIT_EXCEEDED"

\* An isRetryableError that trusts the code of a network error alone.
isRetryableError_byCodeAlone(error) ==
    IF isNetworkError(error) THEN <<TRUE>>
    ELSE IF isRateLimitError(error) THEN <<TRUE>>
    ELSE <<error.code = "SERVER_ERROR">>

\* isRetryableError(error): for the network codes the value of the
\* retryable property, which is undefined (the empty sequence) on an object
\* that has none; otherwise a boolean.
isRetryableError(error) ==
    IF isNetworkError(error)
    THEN IF "retryable" \in DOMAIN error THEN <<error.retryable>> ELSE <<>>
    ELSE IF isRateLimitError(error) THEN <<TRUE>>
    ELSE <<error.code = "SERVER_ERROR">>

\* genericError(error.message, ErrorCode.UNKNOWN_ERROR, error.stack): the
\* message of the Error is handed on as it is, a string or not.
genericErrorOf(error) ==
    IF error.t = "Error"
    THEN [genericError(error.message, "UNKNOWN_ERROR", <<"stack">>)
             EXCEPT !.messageType = error.messageType,
                    !.messageItems = error.messageItems]
    ELSE genericError(error.message, "UNKNOWN_ERROR", <<"stack">>)

\* typeof error === 'object' && error !== null && 'code' in error: the
\* property is there, whatever it holds.  An AppError always has one.
HasCode(error) ==
    \/ error.t = "AppError"
    \/ error.t \in {"Error", "object"} /\ error.hasCode

\* A toApiError that classifies every value it is given anew.
toApiError_alwaysGeneric(error) ==
    IF error.t \in {"AppError", "Error"}
    THEN genericErrorOf(error)
    ELSE genericError(S_AnUnknownErrorOccurred, "UNKNOWN_ERROR", <<>>)

\* toApiError(error): an object with a code property is returned as it is;
\* an Error gives a generic error with its message and stack; anything else
\* the fixed message.
toApiError(error) ==
    IF HasCode(error) THEN error
    ELSE IF error.t \in {"AppError", "Error"}
    THEN genericErrorOf(error)
    ELSE genericError(S_AnUnknownErrorOccurred, "UNKNOWN_ERROR", <<>>)

\* ---- Strings as src/types/validation.ts reads them ----
\* A string handed to a validator is the sequence of its UTF-16 code units,
\* each a one-character string ("U+00E9" stands for the letter e with an
\* acute accent).  The texts the validators only hand out are strings.
UpperCase ==
    <<"A","B","C","D","E","F","G","H","I","J","K","L","M",
      "N","O","P","Q","R","S","T","U","V","W","X","Y","Z">>

LowerCase ==
    <<"a","b","c","d","e","f","g","h","i","j","k","l","m",
      "n","o","p","q","r","s","t","u","v","w","x","y","z">>

Digits == {"0","1","2","3","4","5","6","7","8","9"}

Range(seq) == {seq[i] : i \in 1..Len(seq)}

\* ---- Characters ----
\* Ascii[n] is the character with code n, for n in 1..127.  U+0000 and
\* U+0060 (the grave accent) cannot be written inside a string and go by
\* their names, like the code units beyond ASCII.
Ascii ==
    <<"", "", "", "", "", "", "", "",
      "\t", "\n", "", "\f", "\r", "", "", "",
      "", "", "", "", "", "", "", "",
      "", "", "", "", "", "", "", " ",
      "!", "\"", "#", "$", "%", "&", "'", "(",
      ")", "*", "+", ",", "-", ".", "/", "0",
      "1", "2", "3", "4", "5", "6", "7", "8",
      "9", ":", ";", "<", "=", ">", "?", "@",
      "A", "B", "C", "D", "E", "F", "G", "H",
      "I", "J", "K", "L", "M", "N", "O", "P",
      "Q", "R", "S", "T", "U", "V", "W", "X",
      "Y", "Z", "[", "\\", "]", "^", "_", "U+0060",
      "a", "b", "c", "d", "e", "f", "g", "h",
      "i", "j", "k", "l", "m", "n", "o", "p",
      "q", "r", "s", "t", "u", "v", "w", "x",
      "y", "z", "{", "|", "}", "~", "">>

\* The code units beyond ASCII go by their names "U+XXXX", four hexadecimal
\* digits.
HexDigit ==
    <<"0","1","2","3","4","5","6","7","8","9","A","B","C","D","E","F">>

HexDigitValue(d) ==
    IF \E v \in 0..15 : HexDigit[v + 1] = d
    THEN CHOOSE v \in 0..15 : HexDigit[v + 1] = d
    ELSE 9 + CHOOSE v \in 1..6 : LowerCase[v] = d

\* The code of a character.
CharCode(c) ==
    IF \E n \in 1..127 : Ascii[n] = c
    THEN CHOOSE n \in 1..127 : Ascii[n] = c
    ELSE 4096 * HexDigitValue(SubSeq(c, 3, 3))
             + 256 * HexDigitValue(SubSeq(c, 4, 4))
             + 16 * HexDigitValue(SubSeq(c, 5, 5))
             + HexDigitValue(SubSeq(c, 6, 6))

\* The class \s of a regular expression, which is also what trim()
\* removes: the ASCII white space (space, tab, line feed, vertical tab,
\* form feed, carriage return), the no-break space, the Unicode space
\* separators, the line and paragraph separators and the byte order mark.
WhiteSpace ==
    {" ", "\t", "\n", Ascii[11], "\f", "\r", "U+00A0", "U+1680",
     "U+2000", "U+2001", "U+2002", "U+2003", "U+2004", "U+2005", "U+2006",
     "U+2007", "U+2008", "U+2009", "U+200A", "U+2028", "U+2029", "U+202F",
     "U+205F", "U+3000", "U+FEFF"}

RECURSIVE TrimStart(_)
TrimStart(s) ==
    IF s # <<>> /\ Head(s) \in WhiteSpace THEN TrimStart(Tail(s)) ELSE s

RECURSIVE TrimEnd(_)
TrimEnd(s) ==
    IF s # <<>> /\ s[Len(s)] \in WhiteSpace
    THEN TrimEnd(SubSeq(s, 1, Len(s) - 1)) ELSE s

\* String.prototype.trim
Trim(s) == TrimEnd(TrimStart(s))

\* `!s || s.trim().length === 0`
IsBlank(s) == s = <<>> \/ Len(Trim(s)) = 0

VALIDATION_CONSTRAINTS ==
    [USERNAME |-> [MIN_LENGTH |-> 3, MAX_LENGTH |-> 30],
     PASSWORD |-> [MIN_LENGTH |-> 8, MAX_LENGTH |-> 128,
                   REQUIRE_UPPERCASE |-> TRUE, REQUIRE_LOWERCASE |-> TRUE,
                   REQUIRE_NUMBER |-> TRUE, REQUIRE_SPECIAL |-> FALSE],
     POST_CONTENT |-> [MIN_LENGTH |-> 1, MAX_LENGTH |-> 2000],
     COMMENT_CONTENT |-> [MIN_LENGTH |-> 1, MAX_LENGTH |-> 500],
     BIO |-> [MAX_LENGTH |-> 160],
     MEDIA |-> [MAX_FILE_SIZE |-> 10 * 1024 * 1024,
                ALLOWED_IMAGE_TYPES |->
                    <<"image/jpeg", "image/png", "image/webp", "image/heic">>,
                ALLOWED_VIDEO_TYPES |-> <<"video/mp4", "video/quicktime">>,
                MAX_VIDEO_SIZE |-> 50 * 1024 * 1024]]

\* VALIDATION_CONSTRAINTS.USERNAME.PATTERN = /^[a-zA-Z0-9_]+$/
UsernamePattern(s) ==
    /\ s # <<>>
    /\ \A i \in 1..Len(s) :
          s[i] \in Range(LowerCase) \cup Range(UpperCase) \cup Digits \cup {"_"}

\* VALIDATION_CONSTRAINTS.EMAIL.PATTERN = /^[^\s@]+@[^\s@]+\.[^\s@]+$/ :
\* an "@" at i and a "." at j with a character between them, one before
\* the "@" and one after the ".", and neither white space nor another "@"
\* anywhere.
EmailPattern(s) ==
    \E i \in 2..(Len(s) - 3) :
        \E j \in (i + 2)..(Len(s) - 1) :
            /\ s[i] = "@"
            /\ s[j] = "."
            /\ \A k \in (1..Len(s)) \ {i} : s[k] \notin WhiteSpace \cup {"@"}

\* /[!@#$%^&*(),.?":{}|<>]/
SpecialCharacters ==
    {"!","@","#","$","%","^","&","*","(",")",",",".","?","\"",":","{","}",
     "|","<",">"}

RECURSIVE JoinComma(_)
\* errors.join(', ')
JoinComma(errors) ==
    IF errors = <<>> THEN ""
    ELSE IF Len(errors) = 1 THEN errors[1]
    ELSE errors[1] \o ", " \o JoinComma(Tail(errors))

\* ---- new URL(url) ----
\* The URL parser without a base, as far as it decides between returning
\* and throwing.  It removes leading and trailing C0 controls and spaces
\* and every tab and newline, and needs a scheme (a letter, then letters,
\* digits, "+", "-", "." up to the first ":").  For http, https, ws, wss
\* and ftp an authority follows after any run of slashes; for file and for
\* the other schemes only after "//".  The authority reaches to the next
\* "/", "?" or "#" ("\" too for the special schemes): credentials up to
\* its last "@", then the host, then after a ":" outside brackets the port.
\* Path, query and fragment are never refused.
C0ControlOrSpace == {Ascii[n] : n \in 1..32} \cup {"U+0000"}

RECURSIVE StripStart(_)
StripStart(s) ==
    IF s # <<>> /\ Head(s) \in C0ControlOrSpace THEN StripStart(Tail(s))
    ELSE s

RECURSIVE StripEnd(_)
StripEnd(s) ==
    IF s # <<>> /\ s[Len(s)] \in C0ControlOrSpace
    THEN StripEnd(SubSeq(s, 1, Len(s) - 1)) ELSE s

URLInput(s) ==
    SelectSeq(StripEnd(StripStart(s)), LAMBDA c : c \notin {"\t", "\n", "\r"})

SchemeEnd(t) ==
    IF \E k \in 2..Len(t) : t[k] = ":" /\ \A i \in 1..(k - 1) : t[i] # ":"
    THEN CHOOSE k \in 2..Len(t) : t[k] = ":" /\ \A i \in 1..(k - 1) : t[i] # ":"
    ELSE 0

HasScheme(t) ==
    /\ SchemeEnd(t) > 0
    /\ t[1] \in Range(LowerCase) \cup Range(UpperCase)
    /\ \A i \in 2..(SchemeEnd(t) - 1) :
          t[i] \in Range(LowerCase) \cup Range(UpperCase) \cup Digits
                   \cup {"+", "-", "."}

ToLowerCase(s) ==
    [i \in 1..Len(s) |->
        IF s[i] \in Range(UpperCase)
        THEN LowerCase[CHOOSE n \in 1..Len(UpperCase) : UpperCase[n] = s[i]]
        ELSE s[i]]

\* The special schemes other than file.
SpecialSchemes ==
    {<<"h","t","t","p">>, <<"h","t","t","p","s">>, <<"w","s">>,
     <<"w","s","s">>, <<"f","t","p">>}

RECURSIVE SkipSlashes(_)
SkipSlashes(r) ==
    IF r # <<>> /\ Head(r) \in {"/", "\\"} THEN SkipSlashes(Tail(r)) ELSE r

RECURSIVE UpTo(_, _)
\* The characters of r before the first one of stops.
UpTo(r, stops) ==
    IF r = <<>> \/ Head(r) \in stops THEN <<>>
    ELSE <<Head(r)>> \o UpTo(Tail(r), stops)

\* The last place of x in s, 0 when there is none.
LastIndexOf(s, x) ==
    IF \E i \in 1..Len(s) : s[i] = x
    THEN CHOOSE i \in 1..Len(s) :
            s[i] = x /\ \A j \in (i + 1)..Len(s) : s[j] # x
    ELSE 0

RECURSIVE Split(_, _)
\* s.split(sep) on a sequence.
Split(s, sep) ==
    IF \E i \in 1..Len(s) : s[i] = sep
    THEN LET i == CHOOSE k \in 1..Len(s) :
                    s[k] = sep /\ \A j \in 1..(k - 1) : s[j] # sep
         IN  <<SubSeq(s, 1, i - 1)>> \o Split(SubSeq(s, i + 1, Len(s)), sep)
    ELSE <<s>>

\* -- IPv6 literal --
HexDigits ==
    Digits \cup {"a","b","c","d","e","f","A","B","C","D","E","F"}

\* The number of hexadecimal digits of s from place p on, four at most.
HexRun(s, p) ==
    IF \E n \in 1..4 :
          /\ p + n - 1 <= Len(s)
          /\ \A i \in p..(p + n - 1) : s[i] \in HexDigits
    THEN CHOOSE n \in 1..4 :
          /\ p + n - 1 <= Len(s)
          /\ \A i \in p..(p + n - 1) : s[i] \in HexDigits
          /\ (n = 4 \/ p + n > Len(s) \/ s[p + n] \notin HexDigits)
    ELSE 0

\* The value of a run of decimal digits that has at most nine of them.
RECURSIVE Decimal(_)
Decimal(d) ==
    IF d = <<>> THEN 0
    ELSE 10 * Decimal(SubSeq(d, 1, Len(d) - 1)) + CharCode(d[Len(d)]) - 48

\* The dotted end of an IPv6 literal: four decimal numbers up to 255, none
\* with a leading zero.
IPv4InIPv6(s) ==
    LET parts == Split(s, ".")
    IN  /\ Len(parts) = 4
        /\ \A i \in 1..4 :
              /\ parts[i] # <<>>
              /\ Len(parts[i]) <= 3
              /\ \A j \in 1..Len(parts[i]) : parts[i][j] \in Digits
              /\ (Len(parts[i]) > 1 => parts[i][1] # "0")
              /\ Decimal(parts[i]) <= 255

RECURSIVE IPv6Pieces(_, _, _, _)
\* The loop of the IPv6 parser at place p with n pieces read; compress
\* tells whether "::" was seen.
IPv6Pieces(s, p, n, compress) ==
    IF p > Len(s) THEN compress \/ n = 8
    ELSE IF n = 8 THEN FALSE
    ELSE IF s[p] = ":" THEN ~compress /\ IPv6Pieces(s, p + 1, n + 1, TRUE)
    ELSE LET len == HexRun(s, p)
             q == p + len
         IN  IF q > Len(s) THEN len > 0 /\ (compress \/ n + 1 = 8)
             ELSE IF s[q] = "." THEN
                 /\ len > 0
                 /\ n <= 6
                 /\ IPv4InIPv6(SubSeq(s, p, Len(s)))
                 /\ (compress \/ n + 2 = 8)
             ELSE IF s[q] = ":" THEN
                 /\ len > 0
                 /\ q + 1 <= Len(s)
                 /\ IPv6Pieces(s, q + 1, n + 1, compress)
             ELSE FALSE

IPv6Parses(s) ==
    IF s # <<>> /\ s[1] = ":"
    THEN Len(s) >= 2 /\ s[2] = ":" /\ IPv6Pieces(s, 3, 1, TRUE)
    ELSE IPv6Pieces(s, 1, 0, FALSE)

\* -- Domain --
\* The domain is handled as the sequence of its code points.
Codes(h) == [i \in 1..Len(h) |-> CharCode(h[i])]

HexValue(c) ==
    IF 48 <= c /\ c <= 57 THEN c - 48
    ELSE IF 97 <= c /\ c <= 102 THEN c - 87
    ELSE IF 65 <= c /\ c <= 70 THEN c - 55
    ELSE 99

RECURSIVE PercentDecode(_)
\* Percent-decoding: "%" and two hexadecimal digits give a byte.
PercentDecode(cs) ==
    IF cs = <<>> THEN <<>>
    ELSE IF /\ cs[1] = 37
            /\ Len(cs) >= 3
            /\ HexValue(cs[2]) < 16
            /\ HexValue(cs[3]) < 16
    THEN <<16 * HexValue(cs[2]) + HexValue(cs[3])>>
             \o PercentDecode(SubSeq(cs, 4, Len(cs)))
    ELSE <<cs[1]>> \o PercentDecode(Tail(cs))

\* ASCII capitals as small letters.
LowerAscii(cs) ==
    [i \in 1..Len(cs) |->
        IF 65 <= cs[i] /\ cs[i] <= 90 THEN cs[i] + 32 ELSE cs[i]]

\* A decoded domain is beyond ASCII when it holds a byte or a code unit of
\* 128 and more, or a label that starts with "xn--": the parser then hands
\* it to the Unicode processing (UTS #46: mapping, normalization, Punycode,
\* validity of the labels), which works from the Unicode tables of the
\* runtime.
BeyondAscii(cs) ==
    \/ \E i \in 1..Len(cs) : cs[i] >= 128
    \/ \E i \in 1..Len(Split(cs, 46)) :
          /\ Len(Split(cs, 46)[i]) >= 4
          /\ SubSeq(Split(cs, 46)[i], 1, 4) = <<120, 110, 45, 45>>

\* -- IPv4 --
RECURSIVE Accumulate(_, _, _, _)
\* The number the digits spell in radix r, as <<hi, lo>> with value
\* hi * 65536 + lo and hi held at 65536 once the number passes 32 bits.
Accumulate(digits, r, hi, lo) ==
    IF digits = <<>> THEN <<hi, lo>>
    ELSE LET l == lo * r + HexValue(digits[1])
             h == hi * r + l \div 65536
         IN  Accumulate(Tail(digits), r, IF h > 65536 THEN 65536 ELSE h,
                        l % 65536)

\* The IPv4 number parser: decimal, "0x" hexadecimal or "0" octal; the
\* empty sequence when the part is no number.
IPv4Number(part) ==
    LET hex == Len(part) >= 2 /\ part[1] = 48 /\ part[2] \in {88, 120}
        oct == ~hex /\ Len(part) >= 2 /\ part[1] = 48
        r == IF hex THEN 16 ELSE IF oct THEN 8 ELSE 10
        digits == IF hex THEN SubSeq(part, 3, Len(part))
                  ELSE IF oct THEN Tail(part) ELSE part
    IN  IF part # <<>> /\ \A i \in 1..Len(digits) : HexValue(digits[i]) < r
        THEN <<Accumulate(digits, r, 0, 0)>>
        ELSE <<>>

\* The parts without one empty part at the end.
NumberParts(parts) ==
    IF Len(parts) > 1 /\ parts[Len(parts)] = <<>>
    THEN SubSeq(parts, 1, Len(parts) - 1) ELSE parts

EndsInNumber(parts) ==
    LET last == NumberParts(parts)[Len(NumberParts(parts))]
    IN  /\ last # <<>>
        /\ \/ \A i \in 1..Len(last) : 48 <= last[i] /\ last[i] <= 57
           \/ IPv4Number(last) # <<>>

IPv4Parses(parts) ==
    LET ps == NumberParts(parts)
        n == Len(ps)
        limit == CASE n = 1 -> 65536 [] n = 2 -> 256 [] n = 3 -> 1
                   [] OTHER -> 0
    IN  /\ n <= 4
        /\ \A i \in 1..n : IPv4Number(ps[i]) # <<>>
        /\ \A i \in 1..(n - 1) :
              LET v == IPv4Number(ps[i])[1] IN v[1] = 0 /\ v[2] <= 255
        /\ LET v == IPv4Number(ps[n])[1]
           IN  IF n = 4 THEN v[1] = 0 /\ v[2] <= 255 ELSE v[1] < limit

\* -- Host --
\* The forbidden host code points, and the further ones a domain must not
\* hold: NUL, tab, line feed, carriage return, space, # / : < > ? @ [ \ ]
\* ^ |, and the C0 controls, % and DEL.
ForbiddenHost ==
    {0, 9, 10, 13, 32, 35, 47, 58, 60, 62, 63, 64, 91, 92, 93, 94, 124}

ForbiddenDomain == ForbiddenHost \cup 0..31 \cup {37, 127}

\* The host parser on a domain, percent-decoded and in small letters.  An
\* ASCII domain is not empty, free of forbidden code points, and an IPv4
\* address when its last label is a number.  Of a domain beyond ASCII the
\* Unicode processing of the runtime decides, together with the checks on
\* what it produces: unicode tells whether they let the domain pass.  The
\* Unicode tables are no part of the repository and differ from one
\* runtime to the next.
AsciiDomainParses(cs) ==
    /\ cs # <<>>
    /\ \A i \in 1..Len(cs) : cs[i] \notin ForbiddenDomain
    /\ EndsInNumber(Split(cs, 46)) => IPv4Parses(Split(cs, 46))

DecodedDomainParses(cs, unicode) ==
    IF BeyondAscii(cs) THEN unicode ELSE AsciiDomainParses(cs)

DomainParses(h, unicode) ==
    DecodedDomainParses(LowerAscii(PercentDecode(Codes(h))), unicode)

\* The host parser; a host that is not of a special scheme is opaque.
HostParses(h, special, unicode) ==
    IF h # <<>> /\ h[1] = "["
    THEN h[Len(h)] = "]" /\ IPv6Parses(SubSeq(h, 2, Len(h) - 1))
    ELSE IF special THEN DomainParses(h, unicode)
    ELSE \A i \in 1..Len(h) : CharCode(h[i]) \notin ForbiddenHost

\* The place of the first ":" of hp outside brackets, 0 when there is none.
PortColon(hp) ==
    LET outside(i) ==
            /\ hp[i] = ":"
            /\ ~\E j \in 1..(i - 1) :
                  hp[j] = "[" /\ \A k \in (j + 1)..(i - 1) : hp[k] # "]"
    IN  IF \E i \in 1..Len(hp) : outside(i)
        THEN CHOOSE i \in 1..Len(hp) :
                outside(i) /\ \A j \in 1..(i - 1) : ~outside(j)
        ELSE 0

RECURSIVE DropZeros(_)
DropZeros(d) == IF d # <<>> /\ Head(d) = "0" THEN DropZeros(Tail(d)) ELSE d

\* A port is a run of digits, empty or worth at most 65535.
PortParses(port) ==
    /\ \A i \in 1..Len(port) : port[i] \in Digits
    /\ Len(DropZeros(port)) <= 5
    /\ Decimal(DropZeros(port)) <= 65535

\* The authority, host and port states on what follows the slashes.
AuthorityParses(r, special, unicode) ==
    LET a == UpTo(r, IF special THEN {"/", "\\", "?", "#"}
                     ELSE {"/", "?", "#"})
        at == LastIndexOf(a, "@")
        hp == SubSeq(a, at + 1, Len(a))
        colon == PortColon(hp)
        host == IF colon > 0 THEN SubSeq(hp, 1, colon - 1) ELSE hp
    IN  /\ at > 0 => hp # <<>>
        /\ (special \/ colon > 0) => host # <<>>
        /\ HostParses(host, special, unicode)
        /\ colon > 0 => PortParses(SubSeq(hp, colon + 1, Len(hp)))

\* The file host state on what follows "file://": a drive letter and an
\* empty host pass, any other host is parsed as a domain.
FileHostParses(r, unicode) ==
    LET h == UpTo(r, {"/", "\\", "?", "#"})
        drive == /\ Len(h) = 2
                 /\ h[1] \in Range(LowerCase) \cup Range(UpperCase)
                 /\ h[2] \in {":", "|"}
    IN  drive \/ h = <<>> \/ HostParses(h, TRUE, unicode)

\* new URL(s) returns (TRUE) or throws (FALSE).  runtime is the set of the
\* strings with a domain beyond ASCII that new URL of the runtime at hand
\* takes; it is asked of no other string.
URLParses(s, runtime) ==
    LET t == URLInput(s)
        k == SchemeEnd(t)
        scheme == ToLowerCase(SubSeq(t, 1, k - 1))
        rest == SubSeq(t, k + 1, Len(t))
        slashes(n) ==
            Len(rest) >= n /\ \A i \in 1..n : rest[i] \in {"/", "\\"}
    IN  /\ HasScheme(t)
        /\ IF scheme \in SpecialSchemes
           THEN AuthorityParses(SkipSlashes(rest), TRUE, s \in runtime)
           ELSE IF scheme = <<"f","i","l","e">>
           THEN slashes(2) =>
                    FileHostParses(SubSeq(rest, 3, Len(rest)), s \in runtime)
           ELSE (Len(rest) >= 2 /\ rest[1] = "/" /\ rest[2] = "/") =>
                    AuthorityParses(SubSeq(rest, 3, Len(rest)), FALSE,
                                    s \in runtime)

\* ---- Field validators (src/types/validation.ts) ----
\* Each returns { success: false, error: validationError(message, field) }
\* for the first check that fails and { success: true, data: input }
\* otherwise.
Invalid(message, field) ==
    failure(api_validationError(message, <<field>>, <<>>))

validateEmail(email) ==
    IF IsBlank(email) THEN Invalid("Email is required", "email")
    ELSE IF ~EmailPattern(email) THEN Invalid("Invalid email format", "email")
    ELSE success(email)

\* A validateUsername that tests the character set before the lengths.
validateUsername_patternFirst(username) ==
    IF IsBlank(username) THEN Invalid("Username is required", "username")
    ELSE IF ~UsernamePattern(username) THEN
        Invalid("Username can only contain letters, numbers, and underscores",
                "username")
    ELSE IF Len(username) < VALIDATION_CONSTRAINTS.USERNAME.MIN_LENGTH THEN
        Invalid("Username must be at least "
                    \o ToString(VALIDATION_CONSTRAINTS.USERNAME.MIN_LENGTH)
                    \o " characters", "username")
    ELSE IF Len(username) > VALIDATION_CONSTRAINTS.USERNAME.MAX_LENGTH THEN
        Invalid("Username must not exceed "
                    \o ToString(VALIDATION_CONSTRAINTS.USERNAME.MAX_LENGTH)
                    \o " characters", "username")
    ELSE success(username)

validateUsername(username) ==
    IF IsBlank(username) THEN Invalid("Username is required", "username")
    ELSE IF Len(username) < VALIDATION_CONSTRAINTS.USERNAME.MIN_LENGTH THEN
        Invalid("Username must be at least "
                    \o ToString(VALIDATION_CONSTRAINTS.USERNAME.MIN_LENGTH)
                    \o " characters", "username")
    ELSE IF Len(username) > VALIDATION_CONSTRAINTS.USERNAME.MAX_LENGTH THEN
        Invalid("Username must not exceed "
                    \o ToString(VALIDATION_CONSTRAINTS.USERNAME.MAX_LENGTH)
                    \o " characters", "username")
    ELSE IF ~UsernamePattern(username) THEN
        Invalid("Username can only contain letters, numbers, and underscores",
                "username")
    ELSE success(username)

\* A validatePassword that names the first missing character class alone.
validatePassword_firstMissing(password) ==
    LET C == VALIDATION_CONSTRAINTS.PASSWORD
        has(class) == \E i \in 1..Len(password) : password[i] \in class
        errors ==
            (IF C.REQUIRE_UPPERCASE /\ ~has(Range(UpperCase))
             THEN <<"at least one uppercase letter">> ELSE <<>>)
            \o (IF C.REQUIRE_LOWERCASE /\ ~has(Range(LowerCase))
                THEN <<"at least one lowercase letter">> ELSE <<>>)
            \o (IF C.REQUIRE_NUMBER /\ ~has(Digits)
                THEN <<"at least one number">> ELSE <<>>)
            \o (IF C.REQUIRE_SPECIAL /\ ~has(SpecialCharacters)
                THEN <<"at least one special character">> ELSE <<>>)
    IN  IF password = <<>> THEN Invalid("Password is required", "password")
        ELSE IF Len(password) < C.MIN_LENGTH THEN
            Invalid("Password must be at least " \o ToString(C.MIN_LENGTH)
                        \o " characters", "password")
        ELSE IF Len(password) > C.MAX_LENGTH THEN
            Invalid("Password must not exceed " \o ToString(C.MAX_LENGTH)
                        \o " characters", "password")
        ELSE IF Len(errors) > 0 THEN
            Invalid("Password must contain " \o errors[1], "password")
        ELSE success(password)

validatePassword(password) ==
    LET C == VALIDATION_CONSTRAINTS.PASSWORD
        has(class) == \E i \in 1..Len(password) : password[i] \in class
        errors ==
            (IF C.REQUIRE_UPPERCASE /\ ~has(Range(UpperCase))
             THEN <<"at least one uppercase letter">> ELSE <<>>)
            \o (IF C.REQUIRE_LOWERCASE /\ ~has(Range(LowerCase))
                THEN <<"at least one lowercase letter">> ELSE <<>>)
            \o (IF C.REQUIRE_NUMBER /\ ~has(Digits)
                THEN <<"at least one number">> ELSE <<>>)
            \o (IF C.REQUIRE_SPECIAL /\ ~has(SpecialCharacters)
                THEN <<"at least one special character">> ELSE <<>>)
    IN  IF password = <<>> THEN Invalid("Password is required", "password")
        ELSE IF Len(password) < C.MIN_LENGTH THEN
            Invalid("Password must be at least " \o ToString(C.MIN_LENGTH)
                        \o " characters", "password")
        ELSE IF Len(password) > C.MAX_LENGTH THEN
            Invalid("Password must not exceed " \o ToString(C.MAX_LENGTH)
                        \o " characters", "password")
        ELSE IF Len(errors) > 0 THEN
            Invalid("Password must contain " \o JoinComma(errors), "password")
        ELSE success(password)

validatePostContent(content) ==
    LET C == VALIDATION_CONSTRAINTS.POST_CONTENT
    IN  IF IsBlank(content) THEN
            Invalid("Post content is required", "content")
        ELSE IF Len(content) < C.MIN_LENGTH THEN
            Invalid("Post must be at least " \o ToString(C.MIN_LENGTH)
                        \o " character", "content")
        ELSE IF Len(content) > C.MAX_LENGTH THEN
            Invalid("Post must not exceed " \o ToString(C.MAX_LENGTH)
                        \o " characters", "content")
        ELSE success(content)

\* A validateCommentContent that applies the bounds of a post.
validateCommentContent_postBound(content) ==
    LET C == VALIDATION_CONSTRAINTS.POST_CONTENT
    IN  IF IsBlank(content) THEN
            Invalid("Comment content is required", "content")
        ELSE IF Len(content) < C.MIN_LENGTH THEN
            Invalid("Comment must be at least " \o ToString(C.MIN_LENGTH)
                        \o " character", "content")
        ELSE IF Len(content) > C.MAX_LENGTH THEN
            Invalid("Comment must not exceed " \o ToString(C.MAX_LENGTH)
                        \o " characters", "content")
        ELSE success(content)

validateCommentContent(content) ==
    LET C == VALIDATION_CONSTRAINTS.COMMENT_CONTENT
    IN  IF IsBlank(content) THEN
            Invalid("Comment content is required", "content")
        ELSE IF Len(content) < C.MIN_LENGTH THEN
            Invalid("Comment must be at least " \o ToString(C.MIN_LENGTH)
                        \o " character", "content")
        ELSE IF Len(content) > C.MAX_LENGTH THEN
            Invalid("Comment must not exceed " \o ToString(C.MAX_LENGTH)
                        \o " characters", "content")
        ELSE success(content)

\* A validateBio that stores the trimmed text.
validateBio_trimmed(bio) ==
    IF Len(bio) > VALIDATION_CONSTRAINTS.BIO.MAX_LENGTH THEN
        Invalid("Bio must not exceed "
                    \o ToString(VALIDATION_CONSTRAINTS.BIO.MAX_LENGTH)
                    \o " characters", "bio")
    ELSE success(Trim(bio))

validateBio(bio) ==
    IF Len(bio) > VALIDATION_CONSTRAINTS.BIO.MAX_LENGTH THEN
        Invalid("Bio must not exceed "
                    \o ToString(VALIDATION_CONSTRAINTS.BIO.MAX_LENGTH)
                    \o " characters", "bio")
    ELSE success(bio)

\* validateMediaUrl(url): a blank url is refused, then one that new URL
\* throws on; runtime is what URLParses asks about a domain beyond ASCII.
validateMediaUrl(url, runtime) ==
    IF IsBlank(url) THEN Invalid("Media URL is required", "media_url")
    ELSE IF ~URLParses(url, runtime)
    THEN Invalid("Invalid URL format", "media_url")
    ELSE success(url)

\* ---- Composite validators (src/types/validation.ts) ----
\* (num / den).toFixed(2) for natural numbers: the quotient rounded to
\* hundredths, written with two decimals.
ToFixed2(num, den) ==
    LET h == 100 * (num \div den) + (200 * (num % den) + den) \div (2 * den)
    IN  ToString(h \div 100) \o "." \o ToString((h % 100) \div 10)
            \o ToString(h % 10)

\* A validateMediaFile that tests the type before the size.
validateMediaFile_typeFirst(input, runtime) ==
    LET M == VALIDATION_CONSTRAINTS.MEDIA
        isVideo == input.type \in Range(M.ALLOWED_VIDEO_TYPES)
        maxSize == IF isVideo THEN M.MAX_VIDEO_SIZE ELSE M.MAX_FILE_SIZE
        allowedTypes == M.ALLOWED_IMAGE_TYPES \o M.ALLOWED_VIDEO_TYPES
        uriResult == validateMediaUrl(input.uri, runtime)
    IN  IF input.type \notin Range(allowedTypes) THEN
            Invalid("Invalid file type. Only images and videos are allowed.",
                    "media")
        ELSE IF input.size > maxSize THEN
            Invalid("File size must not exceed "
                        \o ToFixed2(maxSize, 1024 * 1024) \o "MB", "media")
        ELSE IF ~uriResult.success THEN uriResult
        ELSE success([uri |-> uriResult.data, type |-> input.type,
                      name |-> input.name, size |-> input.size])

\* validateMediaFile: the size against the bound of the kind (the video
\* bound for a video type, the file bound for any other type), then the
\* type against both allow-lists, then the URI.
validateMediaFile(input, runtime) ==
    LET M == VALIDATION_CONSTRAINTS.MEDIA
        isVideo == input.type \in Range(M.ALLOWED_VIDEO_TYPES)
        maxSize == IF isVideo THEN M.MAX_VIDEO_SIZE ELSE M.MAX_FILE_SIZE
        allowedTypes == M.ALLOWED_IMAGE_TYPES \o M.ALLOWED_VIDEO_TYPES
        uriResult == validateMediaUrl(input.uri, runtime)
    IN  IF input.size > maxSize THEN
            Invalid("File size must not exceed "
                        \o ToFixed2(maxSize, 1024 * 1024) \o "MB", "media")
        ELSE IF input.type \notin Range(allowedTypes) THEN
            Invalid("Invalid file type. Only images and videos are allowed.",
                    "media")
        ELSE IF ~uriResult.success THEN uriResult
        ELSE success([uri |-> uriResult.data, type |-> input.type,
                      name |-> input.name, size |-> input.size])

validatePasswordsMatch(password, confirmation) ==
    IF password # confirmation
    THEN Invalid("Passwords do not match", "password_confirmation")
    ELSE success(TRUE)

\* A validateSignupInput that validates the password before the user name.
validateSignupInput_passwordFirst(input) ==
    LET emailResult == validateEmail(input.email)
        usernameResult == validateUsername(input.username)
        passwordResult == validatePassword(input.password)
        matchResult == validatePasswordsMatch(input.password,
                                              input.password_confirmation)
    IN  IF ~emailResult.success THEN emailResult
        ELSE IF ~passwordResult.success THEN passwordResult
        ELSE IF ~usernameResult.success THEN usernameResult
        ELSE IF ~matchResult.success THEN matchResult
        ELSE success([email |-> emailResult.data,
                      username |-> usernameResult.data,
                      password |-> passwordResult.data])

validateSignupInput(input) ==
    LET emailResult == validateEmail(input.email)
        usernameResult == validateUsername(input.username)
        passwordResult == validatePassword(input.password)
        matchResult == validatePasswordsMatch(input.password,
                                              input.password_confirmation)
    IN  IF ~emailResult.success THEN emailResult
        ELSE IF ~usernameResult.success THEN usernameResult
        ELSE IF ~passwordResult.success THEN passwordResult
        ELSE IF ~matchResult.success THEN matchResult
        ELSE success([email |-> emailResult.data,
                      username |-> usernameResult.data,
                      password |-> passwordResult.data])

\* An optional property is a sequence of zero (absent or undefined) or one
\* value; it is truthy when it holds a non-empty string.
Present(opt) == opt # <<>> /\ opt[1] # <<>>

\* A validateCreatePostInput that validates the thumbnail whether or not a
\* media URL came with it.
validateCreatePostInput_thumbnailAlways(input, runtime) ==
    LET contentResult == validatePostContent(input.content)
        urlResult == validateMediaUrl(input.media_url[1], runtime)
        thumbnailResult ==
            validateMediaUrl(input.thumbnail_url[1], runtime)
    IN  IF ~contentResult.success THEN contentResult
        ELSE IF Present(input.media_url) /\ ~urlResult.success THEN urlResult
        ELSE IF Present(input.thumbnail_url) /\ ~thumbnailResult.success
        THEN thumbnailResult
        ELSE success(
            [content |-> contentResult.data,
             media_url |-> IF Present(input.media_url)
                           THEN <<urlResult.data>> ELSE <<>>,
             media_type |-> IF Present(input.media_url)
                            THEN input.media_type ELSE <<>>,
             thumbnail_url |-> IF Present(input.thumbnail_url)
                               THEN <<thumbnailResult.data>> ELSE <<>>])

\* validateCreatePostInput: the content; the media URL when it is truthy,
\* and then media_type is copied as it came; the thumbnail when a media URL
\* was given and the thumbnail is truthy.
validateCreatePostInput(input, runtime) ==
    LET contentResult == validatePostContent(input.content)
        urlResult == validateMediaUrl(input.media_url[1], runtime)
        thumbnailResult ==
            validateMediaUrl(input.thumbnail_url[1], runtime)
        withThumbnail ==
            Present(input.media_url) /\ Present(input.thumbnail_url)
    IN  IF ~contentResult.success THEN contentResult
        ELSE IF Present(input.media_url) /\ ~urlResult.success THEN urlResult
        ELSE IF withThumbnail /\ ~thumbnailResult.success THEN thumbnailResult
        ELSE success(
            [content |-> contentResult.data,
             media_url |-> IF Present(input.media_url)
                           THEN <<urlResult.data>> ELSE <<>>,
             media_type |-> IF Present(input.media_url)
                            THEN input.media_type ELSE <<>>,
             thumbnail_url |-> IF withThumbnail
                               THEN <<thumbnailResult.data>> ELSE <<>>])

\* ---- Inputs ----
\* Bounds: phrases joined into one failure message, alerts that may be
\* open at once, execute calls that may overlap, resets of one boundary.
MaxPhrases == 2

MaxAlerts == 1

MaxCalls == 2

MaxResets == 2

Phrases ==
    {S_InvalidLoginCredentials, S_JWT, S_token, S_permissionDenied, S_RLS,
     S_timeout, S_NetworkRequestFailed, S_networkRequestFailedLower,
     S_duplicateKey, S_boom}

RECURSIVE Join(_)
\* The phrases of ps joined by single spaces.
Join(ps) ==
    IF ps = <<>> THEN <<>>
    ELSE IF Len(ps) = 1 THEN ps[1]
    ELSE ps[1] \o <<" ">> \o Join(Tail(ps))

\* Every message made of at most MaxPhrases phrases (the empty message
\* included).
Messages ==
    {Join(ps) : ps \in UNION {[1..k -> Phrases] : k \in 0..MaxPhrases}}

\* SQLSTATE codes a backend failure may carry: unique violation, foreign-key
\* violation, one the table does not list, and none.
BackendCodes == {"23505", "23503", "42501", Undefined}

Contexts == {Undefined, "feed"}

\* The value v with each message that is no string: numbers, booleans,
\* null, undefined, a plain object and arrays of strings.
TypedMessages(v) ==
    {WithMessage(v, "number", <<"4","2">>),
     WithMessage(v, "number", <<"0">>),
     WithMessage(v, "boolean", <<"t","r","u","e">>),
     WithMessage(v, "boolean", <<"f","a","l","s","e">>),
     WithMessage(v, "null", <<"n","u","l","l">>),
     WithMessage(v, "undefined", <<"u","n","d","e","f","i","n","e","d">>),
     WithMessage(v, "object",
                 <<"[","o","b","j","e","c","t"," ","O","b","j","e","c","t",
                   "]">>),
     WithArrayMessage(v, <<S_timeout>>),
     WithArrayMessage(v, <<S_boom, S_JWT>>),
     WithArrayMessage(v, <<>>)}

\* Values handed to the normalizers when they are exercised on their own.
RawInputs ==
    {RawValue(t, <<>>, TRUE, m, c) :
        t \in {"Error", "object"}, m \in Messages, c \in BackendCodes}
    \cup {ObjectValue(FALSE, <<>>, c) : c \in BackendCodes}
    \cup {WithUndefinedCode(ObjectValue(TRUE, S_boom, Undefined)),
          WithUndefinedCode(ErrorValue(S_boom, Undefined))}
    \cup UNION {TypedMessages(ObjectValue(TRUE, <<>>, c)) :
                    c \in {"23505", Undefined}}
    \cup TypedMessages(ErrorValue(<<>>, Undefined))
    \cup {StringValue(m) : m \in Messages}
    \cup {Null, Undef}

AppErrorInputs ==
    {validationError(S_badInput, Undefined),
     networkError(S_timeout, <<>>, Undefined),
     AppError(S_duplicateKey, "DATABASE_ERROR", "CRITICAL", TRUE,
              Metadata(Undefined, "23505", <<>>), <<>>)}

\* Failures reported to the hooks: a string, a network exception, a backend
\* failure object with a timeout-like message, one whose message is a
\* number, null, and an already-normalized error.
HookFailures ==
    {StringValue(S_boom),
     ErrorValue(S_NetworkRequestFailed, Undefined),
     ObjectValue(TRUE, Join(<<S_duplicateKey, S_timeout>>), "23505"),
     WithMessage(ObjectValue(TRUE, <<>>, Undefined), "number", <<"4","2">>),
     Null}

HookAppErrors == {validationError(S_badInput, Undefined)}

\* null, as useState<T | null>(null) and setData(null) store it.
NullData == "null"

\* Values an operation may resolve with: setData(result) stores whatever
\* it is, null and undefined as well.
Values == {"v1", "v2", NullData, Undefined}

\* Values the children of a boundary may throw while rendering.
ThrownInRender ==
    {ErrorValue(S_boom, Undefined), StringValue(S_boom), StringValue(<<>>),
     Null, Undef}

\* "slow down"
S_slowDown == <<"s","l","o","w"," ","d","o","w","n">>

\* The arguments of rateLimitError calls: message, retry_after, limit,
\* remaining.
RateLimitArgs ==
    [message : {S_slowDown, S_boom}, retry_after : {0, 30}, limit : {100},
     remaining : {0, 5}]

\* Error objects of the ApiError union: what the factories build, and the
\* network and validation objects with the codes the factories do not
\* produce.
ApiErrorInputs ==
    {[api_networkError(m, r, a) EXCEPT !.code = c] :
        m \in {S_boom, S_timeout}, r \in BOOLEAN, a \in {<<>>, <<30>>},
        c \in {"NETWORK_ERROR", "TIMEOUT_ERROR", "CONNECTION_ERROR"}}
    \cup {[api_validationError(S_badInput, f, d) EXCEPT !.code = c] :
        f \in {<<>>, <<"email">>},
        d \in {<<>>, <<[email |-> <<"taken">>]>>},
        c \in {"VALIDATION_ERROR", "INVALID_INPUT", "MISSING_REQUIRED_FIELD"}}
    \cup {authError(S_boom, c, r) :
        c \in {"UNAUTHORIZED", "FORBIDDEN", "SESSION_EXPIRED",
                "INVALID_CREDENTIALS"}, r \in BOOLEAN}
    \cup {mediaError(S_boom, c, o) :
        c \in {"MEDIA_UPLOAD_FAILED", "MEDIA_TOO_LARGE", "INVALID_MEDIA_TYPE",
                "MEDIA_PROCESSING_FAILED"},
        o \in {<<>>, [max_size |-> 10 * 1024 * 1024, file_name |-> "a.png"],
               [allowed_types |-> <<"image/png">>]}}
    \cup {api_databaseError(S_boom, c, <<>>) :
        c \in {"DATABASE_ERROR", "RECORD_NOT_FOUND", "DUPLICATE_RECORD"}}
    \cup {rateLimitError(x.message, x.retry_after, x.limit, x.remaining) :
        x \in RateLimitArgs}
    \cup {genericError(m, c, o) :
        m \in {S_boom, S_AnUnknownErrorOccurred},
        c \in {"UNKNOWN_ERROR", "SERVER_ERROR"}, o \in {<<>>, <<"stack">>}}

\* ---- Inputs of the validators ----
\* Bound: the length of the strings drawn from the whole alphabet.
MaxLen == 3

Alphabet == {"a", "Z", "1", "_", " ", "@", ".", ":", "/"}

\* n times the character c.
Rep(c, n) == [i \in 1..n |-> c]

\* Strings longer than MaxLen that reach the other branches: user names at
\* the maximum length and with a letter outside a-z, e-mail addresses,
\* passwords with and without each character class, texts at the maximum
\* lengths, URLs with and without a host.
PickedStrings ==
    {<<"a","b">>, <<"j","o","h","n","_","d","o","e","1">>,
     Rep("_", 8),
     <<"a","@","b",".","c","o">>,
     <<"u","s","e","r","@","e","x","a","m","p","l","e",".","c","o","m">>,
     <<"a","@","@","b",".","c">>,
     <<"a","@","b",".","c"," ">>,
     <<" ","a","@","b",".","c">>,
     <<"a","@","b"," ","c",".","d">>,
     <<"a","@",".","c","o">>,
     <<"P","a","s","s","w","0","r","d">>,
     <<"p","a","s","s","w","o","r","d">>,
     <<"P","A","S","S","W","O","R","D">>,
     <<"1","2","3","4","5","6","7","8">>,
     <<"P","a","s","s","w","o","r","d">>,
     <<"p","a","s","s","w","0","r","d">>,
     <<"P","A","S","S","W","0","R","D">>,
     <<"P","a","s","s","w","0","r">>,
     <<"P","a","s","s"," ","w","0","r","d","!">>,
     <<"h","t","t","p","s",":","/","/","a",".","c","o","/","x",".","p","n",
       "g">>,
     <<"h","t","t","p",":","/","/">>,
     <<"h","t","t","p","s",":","a",".","c","o">>,
     <<"H","T","T","P",":","/","/","A",".","C","O">>,
     <<"n","o","t"," ","a"," ","u","r","l">>,
     <<"a",":","/","/">>,
     <<"f","t","p",":","/","/","/","a",".","c","o">>,
     <<"j","o","s","U+00E9">>,
     <<"\r">>,
     <<"\f">>,
     <<"U+00A0">>,
     <<"\r","\n">>,
     <<"U+FEFF">>,
     <<"a","\r">>,
     <<"a","@","b","\r",".","c">>,
     <<"a","U+00A0","@","b",".","c">>,
     <<"\r","\r","\r">>,
     <<"h","t","t","p",":","/","/","a",".","c","o",":","8","0">>,
     <<"h","t","t","p","s",":","/","/","a",".","c","o",":","8","0","8","0",
       "/","x",".","p","n","g">>,
     <<"h","t","t","p",":","/","/","l","o","c","a","l","h","o","s","t",":",
       "3","0","0","0","/","x",".","p","n","g">>,
     <<"h","t","t","p",":","/","/","u","s","e","r",":","p","w","@","a",".",
       "c","o","/","x">>,
     <<"h","t","t","p",":","/","/","[",":",":","1","]","/">>,
     <<"h","t","t","p",":","/","/","[",":",":","f","f","f","f",":","1",".",
       "2",".","3",".","4","]">>,
     <<"h","t","t","p",":","/","/","[","1",":","2","]">>,
     <<"h","t","t","p",":","/","/","a",".","c","o",":","6","5","5","3","6">>,
     <<"h","t","t","p",":","/","/","1",".","2",".","3",".","4">>,
     <<"h","t","t","p",":","/","/","1",".","2",".","3",".","4",".","5">>,
     <<"h","t","t","p",":","/","/","2","5","6",".","2","5","6",".","2","5",
       "6",".","2","5","6">>,
     <<"h","t","t","p",":","/","/","a",".","1">>,
     <<"h","t","t","p",":","/","/","x","n","-","-","a">>,
     <<"h","t","t","p",":","/","/","x","n","-","-","c","a","f","-","d","m",
       "a",".","f","r">>,
     <<"h","t","t","p",":","/","/","%","4","1",".","c","o">>,
     <<"h","t","t","p",":","/","/","x","n","-","-","a","-">>,
     <<"h","t","t","p",":","/","/","x","n","-","-","z","z","a">>,
     <<"h","t","t","p",":","/","/","x","n","-","-","c","a","f","e","-","y",
       "v","c">>,
     <<"h","t","t","p",":","/","/","c","a","f","U+00E9",".","f","r">>,
     <<"h","t","t","p",":","/","/","U+FF11",".","1">>,
     <<"h","t","t","p",":","/","/","U+2100">>,
     <<"h","t","t","p",":","/","/","U+0301","a">>,
     <<"h","t","t","p",":","/","/","U+05D0","a">>,
     <<"h","t","t","p",":","/","/","U+D835","U+DC00",".","c","o">>,
     <<"h","t","t","p",":","/","/","a","%","2","F","b">>,
     <<"\r","h","t","t","p",":","/","/","a",".","c","o">>,
     <<"h","t","t","p",":","/","/","a",".","c","o","\f">>,
     <<"h","t","t","p",":","/","/","a"," ","b",".","c","o">>,
     <<"f","i","l","e",":","/","/","/","x">>,
     <<"f","i","l","e",":","/","/","a",":","8","0","/","x">>,
     <<"a",":","/","/",":","8","0">>,
     <<"h","t","t","p",":","/","/","@">>,
     Rep("a", 30), Rep("a", 31), Rep("a", 30) \o <<"-">>,
     Rep("a", 126) \o <<"A","1">>, Rep("a", 127) \o <<"A","1">>,
     Rep("a", 160), Rep("a", 161), Rep("a", 500), Rep("a", 501),
     Rep("a", 2000), Rep("a", 2001)}

Strings ==
    UNION {[1..n -> Alphabet] : n \in 0..MaxLen} \cup PickedStrings

\* The ways a function wrapped by withErrorHandler settles.
SettledCalls ==
    {Returned(v) : v \in Values}
    \cup {Thrown(x) : x \in HookFailures \cup HookAppErrors}

\* What the functions of the Result pattern are given: a string for the
\* validators, a value for success and failure, a settled call for
\* withErrorHandler.
ResultInputs ==
    {StringValue(x) : x \in Strings}
    \cup AppErrorInputs \cup {Null, Undef}
    \cup {[t |-> "call", settled |-> c] : c \in SettledCalls}

\* Field names and messages a form passes to useFormErrors; "constructor"
\* is also the name of a member of Object.prototype.
Fields == {"email", "password", "constructor"}

FieldMessages == {"Required", "Too short"}

\* ---- Inputs of the composite validators ----
GoodUrl == <<"h","t","t","p","s",":","/","/","a",".","c","o","/","x",".","p","n","g">>

OtherGoodUrl == <<"h","t","t","p","s",":","/","/","a",".","c","o","/","t",".","p","n","g">>

BadUrl == <<"n","o","t"," ","a"," ","u","r","l">>

\* A URL with a port, and one whose host ends in a number and is no IPv4
\* address.
PortUrl == <<"h","t","t","p",":","/","/","a",".","c","o",":","8","0">>

NumberUrl == <<"h","t","t","p",":","/","/","1",".","2",".","3",".","4",".","5">>

\* URLs with a domain beyond ASCII: a letter outside ASCII, and a label in
\* Punycode.
UnicodeUrl == <<"h","t","t","p",":","/","/","c","a","f","U+00E9",".","f","r">>

PunycodeUrl ==
    <<"h","t","t","p",":","/","/","x","n","-","-","c","a","f","-","d","m",
      "a",".","f","r">>

MediaFileInputs ==
    [t : {"mediaFile"},
     uri : {GoodUrl, PortUrl, BadUrl, NumberUrl, UnicodeUrl, <<>>, <<"\r">>},
     type : {"image/jpeg", "image/heic", "video/mp4", "video/quicktime",
             "application/pdf"},
     name : {"file"},
     size : {0, 10 * 1024 * 1024, 10 * 1024 * 1024 + 1, 50 * 1024 * 1024,
             50 * 1024 * 1024 + 1}]

SignupInputs ==
    [t : {"signup"},
     email : {<<"a","@","b",".","c","o">>, <<"a","@","b">>},
     username : {<<"j","o","h","n","_","d","o","e","1">>, <<"a","b">>},
     password : {<<"P","a","s","s","w","0","r","d">>, <<"p","a","s","s","w","o","r","d">>, <<"S","e","c","r","e","t","1","2","3">>},
     password_confirmation : {<<"P","a","s","s","w","0","r","d">>, <<"p","a","s","s","w","o","r","d">>, <<"S","e","c","r","e","t","1","2","4">>}]

CreatePostInputs ==
    [t : {"createPost"},
     content : {<<"h","i">>, <<>>, <<"\r">>},
     media_url : {<<>>, <<<<>>>>, <<GoodUrl>>, <<BadUrl>>, <<UnicodeUrl>>},
     media_type : {<<>>, <<"image">>, <<"video">>},
     thumbnail_url : {<<>>, <<<<>>>>, <<OtherGoodUrl>>, <<BadUrl>>,
                      <<PunycodeUrl>>}]

CompositeInputs == MediaFileInputs \cup SignupInputs \cup CreatePostInputs

\* The URLs an input carries.
UrlsOf(input) ==
    IF input.t = "string" THEN {input.str}
    ELSE IF input.t = "mediaFile" THEN {input.uri}
    ELSE IF input.t = "createPost"
    THEN {input.media_url[i] : i \in DOMAIN input.media_url}
             \cup {input.thumbnail_url[i] : i \in DOMAIN input.thumbnail_url}
    ELSE {}

\* The runtimes an input tells apart: each takes some of the URLs of the
\* input that have a domain beyond ASCII, and none is left out.
Runtimes(input) ==
    SUBSET {s \in UrlsOf(input) : URLParses(s, {s}) # URLParses(s, {})}

\* ---- Inputs of the user-facing texts ----
\* Raw messages: none, the empty string and two texts.
RawMessages == {<<>>, <<<<>>>>, <<S_boom>>, <<S_badInput>>}

\* Codes outside the enumeration: two that name members of
\* Object.prototype and one that names nothing.
OtherCodes == {"constructor", "__proto__", "TEAPOT"}

MessageInputs ==
    [t : {"codeAndMessage"}, code : ErrorCode \cup OtherCodes,
     message : RawMessages]
    \cup {AppError(m, c, "ERROR", TRUE, Metadata(Undefined, Undefined, <<>>),
                   <<>>) :
            m \in {<<>>, S_boom, S_badInput}, c \in ErrorCode \cup OtherCodes}

\* ---- State ----
VARIABLES
    \* useErrorHandler: the errorState cell, the open alerts, the code of
    \* the last error handed to an onError callback
    errorState, alerts, notified,
    \* useAsyncOperation: the loading and data cells, the options of the
    \* hook instance, the execute calls
    loading, data, opts, calls,
    \* history of the surface: the last operation that wrote a cell; the
    \* raw failure and the context of the last report that no dismissal
    \* followed, and whether it replaced another error; the execute call
    \* the last step settled
    lastOp, lastRaw, lastCtx, replaced, lastSettle,
    \* ErrorBoundary: this.state, this.props, the render protocol
    bstate, props, phase, captured, pendingCatch, output, fallbackArgs,
    propagated, logged, resets, bLastOp,
    \* the pure functions exercised on their own: the input, the context
    \* label, the function applied and what it produced; the strings with a
    \* domain beyond ASCII that new URL of the runtime takes
    pIn, pCtx, pFn, pOut, runtime,
    \* useFormErrors: the fieldErrors cell, the fields a message was stored
    \* for and not removed since, the last operation on the form
    fieldErrors, stored, fLastOp

surfaceVars ==
    <<errorState, alerts, notified, lastOp, lastRaw, lastCtx, replaced>>

asyncVars == <<loading, data, opts, calls, lastSettle>>

boundaryVars ==
    <<bstate, props, phase, captured, pendingCatch, output, fallbackArgs,
      propagated, logged, resets, bLastOp>>

parseVars == <<pIn, pCtx, pFn, pOut, runtime>>

formVars == <<fieldErrors, stored, fLastOp>>

vars == <<surfaceVars, asyncVars, boundaryVars, parseVars, formVars>>

\* ---- Initial values of each component ----
\* useState({error: null, hasError: false})
ClearState == [error |-> Null, hasError |-> FALSE]

\* lastSettle describes the execute call the last step settled: the failure
\* or value its operation produced, what onSuccess threw, how the promise of
\* execute settled, the flags of the call and the errorState before the step.
\* It is NoSettle after any other step.
NoSettle ==
    [raw |-> Null, value |-> NullData,
     dismissed |-> FALSE, overlapFailed |-> FALSE, thrown |-> <<>>,
     promise |-> "none", stateBefore |-> ClearState]

\* An execute call: idle or suspended on its operation; whether the surface
\* was dismissed, and whether another call stored a failure, while it was
\* suspended.
IdleCall == [status |-> "idle", dismissed |-> FALSE, overlapFailed |-> FALSE]

SurfaceInit ==
    /\ errorState = ClearState
    /\ alerts = <<>>
    /\ notified = "none"
    /\ lastOp = "init"
    /\ lastRaw = Null
    /\ lastCtx = Undefined
    /\ replaced = FALSE

AsyncInit ==
    /\ loading = FALSE
    /\ data = NullData
    /\ calls = [id \in 1..MaxCalls |-> IdleCall]
    /\ lastSettle = NoSettle

\* An instance with the default options: no onSuccess, showAlert false,
\* no context, retryable true.
DefaultOpts ==
    [onSuccess |-> FALSE, showAlert |-> FALSE, context |-> Undefined,
     retryable |-> TRUE]

NoInfo == "null"

\* ErrorBoundary constructor
InitialBoundaryState == [hasError |-> FALSE, error |-> Null, errorInfo |-> NoInfo]

DefaultProps == [fallback |-> FALSE, onError |-> FALSE, onReset |-> FALSE]

BoundaryIdle ==
    /\ bstate = InitialBoundaryState
    /\ props = DefaultProps
    /\ phase = "unmounted"
    /\ captured = FALSE
    /\ pendingCatch = <<>>
    /\ output = "none"
    /\ fallbackArgs = <<>>
    /\ propagated = FALSE
    /\ logged = <<>>
    /\ resets = 0
    /\ bLastOp = "init"

ParseIdle ==
    /\ pIn = Null
    /\ pCtx = Undefined
    /\ pFn = "none"
    /\ pOut = Null
    /\ runtime = {}

\* useState<Record<string, string>>({})
NoFieldErrors == [f \in {} |-> ""]

FormIdle ==
    /\ fieldErrors = NoFieldErrors
    /\ stored = {}
    /\ fLastOp = "init"

\* ======================= useErrorHandler =======================
\* A clearError that nulls the error and leaves the flag as it was.
clearErrorState_keepFlag == [error |-> Null, hasError |-> errorState.hasError]

\* The value clearError stores in the errorState cell.
clearErrorState == [error |-> Null, hasError |-> FALSE]

\* The value the three handlers store in the errorState cell.
reportedState(appError) == [error |-> appError, hasError |-> TRUE]

\* The alert showErrorAlert opens: Cancel and Retry when the failure is
\* retryable and an onRetry callback was given, a single OK otherwise.
\* Every button calls clearError.
AlertFor(error, retryable, hasOnRetry) ==
    [title |-> getErrorTitle(error.code),
     message |-> getUserMessage(error),
     buttons |-> IF retryable /\ hasOnRetry
                 THEN <<"Cancel", "Retry">> ELSE <<"OK">>]

\* The options a component passes to a handler.  retryable only selects the
\* buttons of an alert that has an onRetry, which the handlers never pass,
\* so the enumerated calls leave it at false.
HandlerOptions ==
    [showAlert : BOOLEAN, context : Contexts, onError : BOOLEAN,
     retryable : {FALSE}]

\* The part the three handlers share once the failure is normalized:
\* store it, call onError, open the alert.  The handlers call
\* showErrorAlert without an onRetry.
Report(appError, o) ==
    /\ errorState' = reportedState(appError)
    /\ replaced' = (errorState.hasError /\ errorState.error # appError)
    /\ notified' = IF o.onError THEN appError.code ELSE notified
    /\ alerts' = IF o.showAlert
                 THEN Append(alerts, AlertFor(appError, o.retryable, FALSE))
                 ELSE alerts

\* The normalizer of a handler throws: the handler ends there, the
\* exception reaches its caller and no cell is written.
Raised ==
    /\ replaced' = FALSE
    /\ UNCHANGED <<errorState, notified, alerts>>

HandleError(raw, o) ==
    /\ o.showAlert => Len(alerts) < MaxAlerts
    /\ Report(parseError(raw, o.context), o)
    /\ lastOp' = "handleError"
    /\ lastRaw' = raw
    /\ lastCtx' = o.context
    /\ UNCHANGED <<asyncVars, boundaryVars, parseVars, formVars>>

HandleSupabaseError(raw, o) ==
    /\ o.showAlert => Len(alerts) < MaxAlerts
    /\ LET normalized == parseSupabaseError(raw, o.context)
       IN  IF normalized.thrown # <<>> THEN Raised
           ELSE Report(normalized.returned[1], o)
    /\ lastOp' = "handleSupabaseError"
    /\ lastRaw' = raw
    /\ lastCtx' = o.context
    /\ UNCHANGED <<asyncVars, boundaryVars, parseVars, formVars>>

HandleNetworkError(raw, o) ==
    /\ o.showAlert => Len(alerts) < MaxAlerts
    /\ LET normalized == parseNetworkError(raw, o.context)
       IN  IF normalized.thrown # <<>> THEN Raised
           ELSE Report(normalized.returned[1], o)
    /\ lastOp' = "handleNetworkError"
    /\ lastRaw' = raw
    /\ lastCtx' = o.context
    /\ UNCHANGED <<asyncVars, boundaryVars, parseVars, formVars>>

\* clearError as it acts on the cells of useErrorHandler.
DoClearError ==
    /\ errorState' = clearErrorState
    /\ lastOp' = "clearError"
    /\ lastRaw' = Null
    /\ lastCtx' = Undefined
    /\ replaced' = FALSE
    /\ UNCHANGED <<alerts, notified>>

ClearError ==
    /\ DoClearError
    /\ UNCHANGED <<asyncVars, boundaryVars, parseVars, formVars>>

\* showErrorAlert called directly by the component.
ShowErrorAlert(error, retryable, hasOnRetry) ==
    /\ Len(alerts) < MaxAlerts
    /\ alerts' = Append(alerts, AlertFor(error, retryable, hasOnRetry))
    /\ UNCHANGED <<errorState, notified, lastOp, lastRaw, lastCtx, replaced>>
    /\ UNCHANGED <<asyncVars, boundaryVars, parseVars, formVars>>

\* The user presses button b of the i-th open alert: the alert closes and
\* the button's onPress runs clearError (Retry then calls the caller's
\* onRetry, which is outside the hook).
DoPressAlertButton(i, b) ==
    /\ i \in 1..Len(alerts)
    /\ b \in 1..Len(alerts[i].buttons)
    /\ alerts' = SubSeq(alerts, 1, i - 1) \o SubSeq(alerts, i + 1, Len(alerts))
    /\ errorState' = clearErrorState
    /\ lastOp' = "clearError"
    /\ lastRaw' = Null
    /\ lastCtx' = Undefined
    /\ replaced' = FALSE
    /\ UNCHANGED notified

PressAlertButton(i, b) ==
    /\ DoPressAlertButton(i, b)
    /\ UNCHANGED <<asyncVars, boundaryVars, parseVars, formVars>>

\* ======================= useAsyncOperation =======================
\* The options of a hook instance; retryable is left at its default.
AsyncOptions ==
    [onSuccess : BOOLEAN, showAlert : BOOLEAN, context : Contexts,
     retryable : {TRUE}]

\* What execute passes to handleError: showAlert, context and retryable of
\* the hook's options, and no onError.
ExecuteHandlerOptions(o) ==
    [showAlert |-> o.showAlert, context |-> o.context, onError |-> FALSE,
     retryable |-> o.retryable]

\* Every execute call that is suspended sees the dismissal.
MarkDismissed ==
    [id \in 1..MaxCalls |->
        IF calls[id].status = "pending"
        THEN [calls[id] EXCEPT !.dismissed = TRUE] ELSE calls[id]]

\* Every execute call that is suspended sees another call store a failure.
MarkOverlapFailed ==
    [id \in 1..MaxCalls |->
        IF calls[id].status = "pending"
        THEN [calls[id] EXCEPT !.overlapFailed = TRUE] ELSE calls[id]]

\* execute up to its await: setLoading(true), clearError(), operation
\* invoked and suspended.
ExecuteStart(id) ==
    /\ calls[id].status = "idle"
    /\ loading' = TRUE
    /\ errorState' = clearErrorState
    /\ calls' = [calls EXCEPT ![id] = [status |-> "pending",
                                       dismissed |-> FALSE,
                                       overlapFailed |-> FALSE]]
    /\ replaced' = FALSE
    /\ lastOp' = "executeStart"
    /\ lastSettle' = NoSettle
    /\ UNCHANGED <<alerts, notified, lastRaw, lastCtx, data, opts>>
    /\ UNCHANGED <<boundaryVars, parseVars, formVars>>

\* An execute that calls onSuccess before setData: a throwing callback
\* then skips the store.
ExecuteResolve_callbackFirst(id, v, thrown) ==
    /\ calls[id].status = "pending"
    /\ thrown # <<>> => opts.onSuccess
    /\ data' = IF thrown = <<>> THEN v ELSE data
    /\ IF thrown = <<>>
       THEN UNCHANGED <<errorState, alerts, notified, replaced>>
       ELSE /\ opts.showAlert => Len(alerts) < MaxAlerts
            /\ Report(parseError(thrown[1], opts.context),
                      ExecuteHandlerOptions(opts))
    /\ loading' = FALSE
    /\ calls' = IF thrown = <<>>
                THEN [calls EXCEPT ![id] = IdleCall]
                ELSE [MarkOverlapFailed EXCEPT ![id] = IdleCall]
    /\ lastSettle' = [raw |-> Null, value |-> v,
                      dismissed |-> calls[id].dismissed,
                      overlapFailed |-> calls[id].overlapFailed,
                      thrown |-> thrown, promise |-> "fulfilled",
                      stateBefore |-> errorState]
    /\ lastOp' = "executeResolve"
    /\ UNCHANGED <<lastRaw, lastCtx, opts>>
    /\ UNCHANGED <<boundaryVars, parseVars, formVars>>

\* execute resumed by the operation resolving with v: setData(v), then
\* onSuccess(v) when configured.  thrown is what onSuccess throws (empty
\* when there is no callback or it returns); the throw happens inside the
\* try block, so the catch block hands it to handleError.  finally:
\* setLoading(false).
ExecuteResolve(id, v, thrown) ==
    /\ calls[id].status = "pending"
    /\ thrown # <<>> => opts.onSuccess
    /\ data' = v
    /\ IF thrown = <<>>
       THEN UNCHANGED <<errorState, alerts, notified, replaced>>
       ELSE /\ opts.showAlert => Len(alerts) < MaxAlerts
            /\ Report(parseError(thrown[1], opts.context),
                      ExecuteHandlerOptions(opts))
    /\ loading' = FALSE
    /\ calls' = IF thrown = <<>>
                THEN [calls EXCEPT ![id] = IdleCall]
                ELSE [MarkOverlapFailed EXCEPT ![id] = IdleCall]
    /\ lastSettle' = [raw |-> Null, value |-> v,
                      dismissed |-> calls[id].dismissed,
                      overlapFailed |-> calls[id].overlapFailed,
                      thrown |-> thrown, promise |-> "fulfilled",
                      stateBefore |-> errorState]
    /\ lastOp' = "executeResolve"
    /\ UNCHANGED <<lastRaw, lastCtx, opts>>
    /\ UNCHANGED <<boundaryVars, parseVars, formVars>>

\* An execute whose catch block also drops the stored value.
ExecuteReject_clearData(id, x) ==
    /\ calls[id].status = "pending"
    /\ opts.showAlert => Len(alerts) < MaxAlerts
    /\ Report(parseError(x, opts.context), ExecuteHandlerOptions(opts))
    /\ loading' = FALSE
    /\ data' = NullData
    /\ calls' = [MarkOverlapFailed EXCEPT ![id] = IdleCall]
    /\ lastSettle' = [raw |-> x, value |-> NullData,
                      dismissed |-> calls[id].dismissed,
                      overlapFailed |-> calls[id].overlapFailed,
                      thrown |-> <<>>, promise |-> "fulfilled",
                      stateBefore |-> errorState]
    /\ lastOp' = "executeReject"
    /\ UNCHANGED <<lastRaw, lastCtx, opts>>
    /\ UNCHANGED <<boundaryVars, parseVars, formVars>>

\* An execute without a catch block: the failure leaves through the
\* promise and only the finally block runs.
ExecuteReject_rethrow(id, x) ==
    /\ calls[id].status = "pending"
    /\ loading' = FALSE
    /\ calls' = [calls EXCEPT ![id] = IdleCall]
    /\ lastSettle' = [raw |-> x, value |-> NullData,
                      dismissed |-> calls[id].dismissed,
                      overlapFailed |-> calls[id].overlapFailed,
                      thrown |-> <<>>, promise |-> "rejected",
                      stateBefore |-> errorState]
    /\ lastOp' = "executeReject"
    /\ UNCHANGED <<errorState, alerts, notified, replaced>>
    /\ UNCHANGED <<lastRaw, lastCtx, data, opts>>
    /\ UNCHANGED <<boundaryVars, parseVars, formVars>>

\* An execute that drops the outcome of a call whose surface was dismissed
\* while it was suspended.
ExecuteReject_dropDismissed(id, x) ==
    /\ calls[id].status = "pending"
    /\ opts.showAlert => Len(alerts) < MaxAlerts
    /\ IF calls[id].dismissed
       THEN UNCHANGED <<errorState, alerts, notified, replaced>>
       ELSE Report(parseError(x, opts.context), ExecuteHandlerOptions(opts))
    /\ loading' = FALSE
    /\ calls' = [MarkOverlapFailed EXCEPT ![id] = IdleCall]
    /\ lastSettle' = [raw |-> x, value |-> NullData,
                      dismissed |-> calls[id].dismissed,
                      overlapFailed |-> calls[id].overlapFailed,
                      thrown |-> <<>>, promise |-> "fulfilled",
                      stateBefore |-> errorState]
    /\ lastOp' = "executeReject"
    /\ UNCHANGED <<lastRaw, lastCtx, data, opts>>
    /\ UNCHANGED <<boundaryVars, parseVars, formVars>>

\* execute resumed by the operation throwing or rejecting with x: the catch
\* block hands x to handleError and does not rethrow.  finally:
\* setLoading(false).
ExecuteReject(id, x) ==
    /\ calls[id].status = "pending"
    /\ opts.showAlert => Len(alerts) < MaxAlerts
    /\ Report(parseError(x, opts.context), ExecuteHandlerOptions(opts))
    /\ loading' = FALSE
    /\ calls' = [MarkOverlapFailed EXCEPT ![id] = IdleCall]
    /\ lastSettle' = [raw |-> x, value |-> NullData,
                      dismissed |-> calls[id].dismissed,
                      overlapFailed |-> calls[id].overlapFailed,
                      thrown |-> <<>>, promise |-> "fulfilled",
                      stateBefore |-> errorState]
    /\ lastOp' = "executeReject"
    /\ UNCHANGED <<lastRaw, lastCtx, data, opts>>
    /\ UNCHANGED <<boundaryVars, parseVars, formVars>>

\* clearError of the async hook (the one of its inner useErrorHandler)
AsyncClearError ==
    /\ DoClearError
    /\ calls' = MarkDismissed
    /\ lastSettle' = NoSettle
    /\ UNCHANGED <<loading, data, opts>>
    /\ UNCHANGED <<boundaryVars, parseVars, formVars>>

\* reset: setLoading(false), setData(null), clearError()
Reset ==
    /\ loading' = FALSE
    /\ data' = NullData
    /\ errorState' = clearErrorState
    /\ calls' = MarkDismissed
    /\ replaced' = FALSE
    /\ lastOp' = "reset"
    /\ lastSettle' = NoSettle
    /\ UNCHANGED <<alerts, notified, lastRaw, lastCtx, opts>>
    /\ UNCHANGED <<boundaryVars, parseVars, formVars>>

AsyncPressAlertButton(i, b) ==
    /\ DoPressAlertButton(i, b)
    /\ calls' = MarkDismissed
    /\ lastSettle' = NoSettle
    /\ UNCHANGED <<loading, data, opts>>
    /\ UNCHANGED <<boundaryVars, parseVars, formVars>>

\* ======================= ErrorBoundary =======================
\* JavaScript truthiness of a thrown value: null, undefined and the empty
\* string are falsy, objects and non-empty strings are truthy.
Truthy(v) ==
    ~ (v.t \in {"null", "undefined"} \/ (v.t = "string" /\ v.str = <<>>))

\* static getDerivedStateFromError(error): the partial state merged into
\* this.state.
getDerivedStateFromError(state, error) ==
    [state EXCEPT !.hasError = TRUE, !.error = error]

\* A componentDidCatch that retries on its own: it stores errorInfo and
\* clears the fault.
componentDidCatchState_autoRetry(state, errorInfo) ==
    [hasError |-> FALSE, error |-> Null, errorInfo |-> errorInfo]

\* The setState of componentDidCatch merged into this.state.
componentDidCatchState(state, errorInfo) ==
    [state EXCEPT !.errorInfo = errorInfo]

\* The new AppError(error.message, ...) statement of componentDidCatch:
\* reading error.message throws a TypeError when the fault is null or
\* undefined; otherwise the AppError is constructed (and thereby logged)
\* with the message of the fault ("" when it has none), UNKNOWN_ERROR,
\* CRITICAL, not operational, the fault as originalError.
componentDidCatchError(error) ==
    IF error.t = "null" THEN Thrown(TypeError(S_CannotReadMessageOfNull))
    ELSE IF error.t = "undefined"
    THEN Thrown(TypeError(S_CannotReadMessageOfUndefined))
    ELSE Returned(AppError(ErrorMessage(error), "UNKNOWN_ERROR", "CRITICAL",
                           FALSE, Metadata(Undefined, Undefined, <<>>),
                           <<error>>))

\* The setState of handleReset.
handleResetState == [hasError |-> FALSE, error |-> Null, errorInfo |-> NoInfo]

\* render(): the custom fallback, the default fallback or the children.
render(state, p) ==
    IF state.hasError /\ Truthy(state.error)
    THEN IF p.fallback THEN "fallback" ELSE "DefaultErrorFallback"
    ELSE "children"

\* The structural description React hands to componentDidCatch.
ComponentStack == "componentStack"

BoundaryProps == [fallback : BOOLEAN, onError : BOOLEAN, onReset : BOOLEAN]

\* React finishes a render pass: componentDidCatch is pending when a fault
\* was captured during the pass.
AfterRender == IF pendingCatch # <<>> THEN "commit" ELSE "idle"

\* A render pass in which render() returns a fallback; the custom fallback
\* is called with this.state.error, this.state.errorInfo and handleReset.
RenderFallback ==
    /\ phase = "render"
    /\ render(bstate, props) # "children"
    /\ output' = render(bstate, props)
    /\ fallbackArgs' = IF props.fallback
                       THEN <<[error |-> bstate.error,
                               errorInfo |-> bstate.errorInfo]>>
                       ELSE fallbackArgs
    /\ phase' = AfterRender
    /\ bLastOp' = "renderFallback"
    /\ UNCHANGED <<bstate, props, captured, pendingCatch, propagated, logged,
                   resets>>
    /\ UNCHANGED <<surfaceVars, asyncVars, parseVars, formVars>>

\* A render pass in which render() returns the children and they render
\* without a fault.
RenderChildren ==
    /\ phase = "render"
    /\ render(bstate, props) = "children"
    /\ ~captured
    /\ output' = "children"
    /\ phase' = "idle"
    /\ bLastOp' = "renderChildren"
    /\ UNCHANGED <<bstate, props, captured, pendingCatch, fallbackArgs,
                   propagated, logged, resets>>
    /\ UNCHANGED <<surfaceVars, asyncVars, parseVars, formVars>>

\* render() returns the children and they throw v: React calls
\* getDerivedStateFromError(v) and renders the boundary again in the same
\* pass.
ChildrenThrow(v) ==
    /\ phase = "render"
    /\ render(bstate, props) = "children"
    /\ ~captured
    /\ bstate' = getDerivedStateFromError(bstate, v)
    /\ captured' = TRUE
    /\ pendingCatch' = <<v>>
    /\ bLastOp' = "childrenThrow"
    /\ UNCHANGED <<props, phase, output, fallbackArgs, propagated, logged,
                   resets>>
    /\ UNCHANGED <<surfaceVars, asyncVars, parseVars, formVars>>

\* The boundary has captured the fault in this pass and its render() still
\* returns the children, which throw again: the boundary has failed and
\* React passes the fault on to whatever encloses it.
Propagate ==
    /\ phase = "render"
    /\ render(bstate, props) = "children"
    /\ captured
    /\ propagated' = TRUE
    /\ phase' = "failed"
    /\ output' = "none"
    /\ bLastOp' = "propagate"
    /\ UNCHANGED <<bstate, props, captured, pendingCatch, fallbackArgs, logged,
                   resets>>
    /\ UNCHANGED <<surfaceVars, asyncVars, parseVars, formVars>>

\* Commit of a pass that captured a fault: componentDidCatch(error, info)
\* logs the AppError, stores errorInfo (which schedules another render) and
\* calls onError.  When its first statement throws, nothing is logged or
\* stored and React passes the TypeError on to whatever encloses the
\* boundary.
ComponentDidCatch ==
    /\ phase = "commit"
    /\ LET made == componentDidCatchError(pendingCatch[1])
       IN  IF made.thrown # <<>>
           THEN /\ propagated' = TRUE
                /\ phase' = "failed"
                /\ UNCHANGED <<logged, bstate>>
           ELSE /\ logged' = made.returned
                /\ bstate' = componentDidCatchState(bstate, ComponentStack)
                /\ phase' = "render"
                /\ UNCHANGED propagated
    /\ pendingCatch' = <<>>
    /\ captured' = FALSE
    /\ bLastOp' = "componentDidCatch"
    /\ UNCHANGED <<props, output, fallbackArgs, resets>>
    /\ UNCHANGED <<surfaceVars, asyncVars, parseVars, formVars>>

\* handleReset: onReset() when given, then the state is reset, which
\* schedules a render.
HandleReset ==
    /\ phase = "idle"
    /\ resets < MaxResets
    /\ bstate' = handleResetState
    /\ resets' = resets + 1
    /\ phase' = "render"
    /\ bLastOp' = "handleReset"
    /\ UNCHANGED <<props, captured, pendingCatch, output, fallbackArgs,
                   propagated, logged>>
    /\ UNCHANGED <<surfaceVars, asyncVars, parseVars, formVars>>

\* The parent renders again and React renders the boundary with it.
ParentRender ==
    /\ phase = "idle"
    /\ phase' = "render"
    /\ bLastOp' = "parentRender"
    /\ UNCHANGED <<bstate, props, captured, pendingCatch, output, fallbackArgs,
                   propagated, logged, resets>>
    /\ UNCHANGED <<surfaceVars, asyncVars, parseVars, formVars>>

\* ======================= Normalizers on their own =======================
DoParseError ==
    /\ pFn = "none"
    /\ pFn' = "parseError"
    /\ pOut' = parseError(pIn, pCtx)
    /\ UNCHANGED <<pIn, pCtx, runtime>>
    /\ UNCHANGED <<surfaceVars, asyncVars, boundaryVars, formVars>>

DoParseSupabaseError ==
    /\ pFn = "none"
    /\ pFn' = "parseSupabaseError"
    /\ pOut' = parseSupabaseError(pIn, pCtx)
    /\ UNCHANGED <<pIn, pCtx, runtime>>
    /\ UNCHANGED <<surfaceVars, asyncVars, boundaryVars, formVars>>

DoParseNetworkError ==
    /\ pFn = "none"
    /\ pFn' = "parseNetworkError"
    /\ pOut' = parseNetworkError(pIn, pCtx)
    /\ UNCHANGED <<pIn, pCtx, runtime>>
    /\ UNCHANGED <<surfaceVars, asyncVars, boundaryVars, formVars>>

DoToApiError ==
    /\ pFn = "none"
    /\ pFn' = "toApiError"
    /\ pOut' = toApiError(pIn)
    /\ UNCHANGED <<pIn, pCtx, runtime>>
    /\ UNCHANGED <<surfaceVars, asyncVars, boundaryVars, formVars>>

\* ======================= src/types/api.ts on its own =======================
DoIsRetryableError ==
    /\ pFn = "none"
    /\ pIn \in ApiErrorInputs
    /\ pFn' = "isRetryableError"
    /\ pOut' = isRetryableError(pIn)
    /\ UNCHANGED <<pIn, pCtx, runtime>>
    /\ UNCHANGED <<surfaceVars, asyncVars, boundaryVars, formVars>>

DoRateLimitError ==
    /\ pFn = "none"
    /\ pIn \in RateLimitArgs
    /\ pFn' = "rateLimitError"
    /\ pOut' = rateLimitError(pIn.message, pIn.retry_after, pIn.limit,
                              pIn.remaining)
    /\ UNCHANGED <<pIn, pCtx, runtime>>
    /\ UNCHANGED <<surfaceVars, asyncVars, boundaryVars, formVars>>

\* toApiError given an object that is an ApiError already.
DoToApiErrorOfApiError ==
    /\ pFn = "none"
    /\ pIn \in ApiErrorInputs
    /\ pFn' = "toApiError"
    /\ pOut' = toApiError(pIn)
    /\ UNCHANGED <<pIn, pCtx, runtime>>
    /\ UNCHANGED <<surfaceVars, asyncVars, boundaryVars, formVars>>

\* ======================= The Result pattern on its own =======================
DoValidateEmail ==
    /\ pFn = "none"
    /\ pIn.t = "string"
    /\ pFn' = "validateEmail"
    /\ pOut' = validateEmail(pIn.str)
    /\ UNCHANGED <<pIn, pCtx, runtime>>
    /\ UNCHANGED <<surfaceVars, asyncVars, boundaryVars, formVars>>

DoValidateUsername ==
    /\ pFn = "none"
    /\ pIn.t = "string"
    /\ pFn' = "validateUsername"
    /\ pOut' = validateUsername(pIn.str)
    /\ UNCHANGED <<pIn, pCtx, runtime>>
    /\ UNCHANGED <<surfaceVars, asyncVars, boundaryVars, formVars>>

DoValidatePassword ==
    /\ pFn = "none"
    /\ pIn.t = "string"
    /\ pFn' = "validatePassword"
    /\ pOut' = validatePassword(pIn.str)
    /\ UNCHANGED <<pIn, pCtx, runtime>>
    /\ UNCHANGED <<surfaceVars, asyncVars, boundaryVars, formVars>>

DoValidatePostContent ==
    /\ pFn = "none"
    /\ pIn.t = "string"
    /\ pFn' = "validatePostContent"
    /\ pOut' = validatePostContent(pIn.str)
    /\ UNCHANGED <<pIn, pCtx, runtime>>
    /\ UNCHANGED <<surfaceVars, asyncVars, boundaryVars, formVars>>

DoValidateCommentContent ==
    /\ pFn = "none"
    /\ pIn.t = "string"
    /\ pFn' = "validateCommentContent"
    /\ pOut' = validateCommentContent(pIn.str)
    /\ UNCHANGED <<pIn, pCtx, runtime>>
    /\ UNCHANGED <<surfaceVars, asyncVars, boundaryVars, formVars>>

DoValidateBio ==
    /\ pFn = "none"
    /\ pIn.t = "string"
    /\ pFn' = "validateBio"
    /\ pOut' = validateBio(pIn.str)
    /\ UNCHANGED <<pIn, pCtx, runtime>>
    /\ UNCHANGED <<surfaceVars, asyncVars, boundaryVars, formVars>>

DoValidateMediaUrl ==
    /\ pFn = "none"
    /\ pIn.t = "string"
    /\ pFn' = "validateMediaUrl"
    /\ pOut' = validateMediaUrl(pIn.str, runtime)
    /\ UNCHANGED <<pIn, pCtx, runtime>>
    /\ UNCHANGED <<surfaceVars, asyncVars, boundaryVars, formVars>>

DoSuccess ==
    /\ pFn = "none"
    /\ pIn.t \in {"AppError", "null", "undefined"}
    /\ pFn' = "success"
    /\ pOut' = success(pIn)
    /\ UNCHANGED <<pIn, pCtx, runtime>>
    /\ UNCHANGED <<surfaceVars, asyncVars, boundaryVars, formVars>>

DoFailure ==
    /\ pFn = "none"
    /\ pIn.t = "AppError"
    /\ pFn' = "failure"
    /\ pOut' = failure(pIn)
    /\ UNCHANGED <<pIn, pCtx, runtime>>
    /\ UNCHANGED <<surfaceVars, asyncVars, boundaryVars, formVars>>

\* The wrapped function has settled and the wrapper returns its Result.
DoWithErrorHandler ==
    /\ pFn = "none"
    /\ pIn.t = "call"
    /\ pFn' = "withErrorHandler"
    /\ pOut' = withErrorHandler(pIn.settled, pCtx)
    /\ UNCHANGED <<pIn, pCtx, runtime>>
    /\ UNCHANGED <<surfaceVars, asyncVars, boundaryVars, formVars>>

\* assertSuccess applied to the Result the last step built; pIn becomes
\* that Result.
DoAssertSuccess ==
    /\ pFn \in {"success", "failure", "withErrorHandler"}
    /\ pFn' = "assertSuccess"
    /\ pIn' = pOut
    /\ pOut' = assertSuccess(pOut)
    /\ UNCHANGED <<pCtx, runtime>>
    /\ UNCHANGED <<surfaceVars, asyncVars, boundaryVars, formVars>>

\* ======================= Composite validators on their own =======================
DoValidateMediaFile ==
    /\ pFn = "none"
    /\ pIn.t = "mediaFile"
    /\ pFn' = "validateMediaFile"
    /\ pOut' = validateMediaFile(pIn, runtime)
    /\ UNCHANGED <<pIn, pCtx, runtime>>
    /\ UNCHANGED <<surfaceVars, asyncVars, boundaryVars, formVars>>

DoValidatePasswordsMatch ==
    /\ pFn = "none"
    /\ pIn.t = "signup"
    /\ pFn' = "validatePasswordsMatch"
    /\ pOut' = validatePasswordsMatch(pIn.password,
                                    pIn.password_confirmation)
    /\ UNCHANGED <<pIn, pCtx, runtime>>
    /\ UNCHANGED <<surfaceVars, asyncVars, boundaryVars, formVars>>

DoValidateSignupInput ==
    /\ pFn = "none"
    /\ pIn.t = "signup"
    /\ pFn' = "validateSignupInput"
    /\ pOut' = validateSignupInput(pIn)
    /\ UNCHANGED <<pIn, pCtx, runtime>>
    /\ UNCHANGED <<surfaceVars, asyncVars, boundaryVars, formVars>>

DoValidateCreatePostInput ==
    /\ pFn = "none"
    /\ pIn.t = "createPost"
    /\ pFn' = "validateCreatePostInput"
    /\ pOut' = validateCreatePostInput(pIn, runtime)
    /\ UNCHANGED <<pIn, pCtx, runtime>>
    /\ UNCHANGED <<surfaceVars, asyncVars, boundaryVars, formVars>>

\* ======================= User-facing texts on their own =======================
DoGetUserFriendlyMessage ==
    /\ pFn = "none"
    /\ pIn.t = "codeAndMessage"
    /\ pFn' = "getUserFriendlyMessage"
    /\ pOut' = getUserFriendlyMessage(pIn.code, pIn.message)
    /\ UNCHANGED <<pIn, pCtx, runtime>>
    /\ UNCHANGED <<surfaceVars, asyncVars, boundaryVars, formVars>>

DoGetUserMessage ==
    /\ pFn = "none"
    /\ pIn.t = "AppError"
    /\ pFn' = "getUserMessage"
    /\ pOut' = getUserMessage(pIn)
    /\ UNCHANGED <<pIn, pCtx, runtime>>
    /\ UNCHANGED <<surfaceVars, asyncVars, boundaryVars, formVars>>

\* ======================= useFormErrors =======================
\* fieldErrors is a plain object: a function from its own keys to their
\* messages, with Object.prototype behind it.
\* A setFieldError that starts a new object with the one entry.
setFieldError_replaceAll(prev, field, message) ==
    [f \in {field} |-> message]

\* prev => ({ ...prev, [field]: message })
setFieldError(prev, field, message) ==
    [f \in DOMAIN prev \cup {field} |->
        IF f = field THEN message ELSE prev[f]]

\* prev => { const newErrors = { ...prev }; delete newErrors[field]; ... }
clearFieldError(prev, field) ==
    [f \in DOMAIN prev \ {field} |-> prev[f]]

\* setFieldErrors({})
clearAllErrors == NoFieldErrors

\* field in fieldErrors: own keys and the keys of the prototype chain.
hasFieldError(errors, field) ==
    field \in DOMAIN errors \/ field \in ObjectPrototypeKeys

\* fieldErrors[field]: a sequence of zero (undefined) or one value; for an
\* inherited key the member of Object.prototype.
getFieldError(errors, field) ==
    IF field \in DOMAIN errors THEN <<errors[field]>>
    ELSE IF field \in ObjectPrototypeKeys
    THEN <<"Object.prototype." \o field>>
    ELSE <<>>

SetFieldError(field, message) ==
    /\ fieldErrors' = setFieldError(fieldErrors, field, message)
    /\ stored' = stored \cup {field}
    /\ fLastOp' = "setFieldError"
    /\ UNCHANGED <<surfaceVars, asyncVars, boundaryVars, parseVars>>

ClearFieldError(field) ==
    /\ fieldErrors' = clearFieldError(fieldErrors, field)
    /\ stored' = stored \ {field}
    /\ fLastOp' = "clearFieldError"
    /\ UNCHANGED <<surfaceVars, asyncVars, boundaryVars, parseVars>>

ClearAllErrors ==
    /\ fieldErrors' = clearAllErrors
    /\ stored' = {}
    /\ fLastOp' = "clearAllErrors"
    /\ UNCHANGED <<surfaceVars, asyncVars, boundaryVars, parseVars>>

\* The component that owns the form reports a failure to its
\* useErrorHandler instance, with the default options.
FormHandleError(raw) ==
    HandleError(raw, [showAlert |-> FALSE, context |-> Undefined,
                      onError |-> FALSE, retryable |-> FALSE])

\* ======================= Specifications =======================
\* One useErrorHandler instance driven by its component.
Init ==
    /\ SurfaceInit
    /\ FormIdle
    /\ AsyncInit /\ opts = DefaultOpts
    /\ BoundaryIdle
    /\ ParseIdle

Next ==
    \/ \E raw \in HookFailures, o \in HandlerOptions : HandleError(raw, o)
    \/ \E raw \in HookAppErrors, o \in HandlerOptions : HandleError(raw, o)
    \/ \E raw \in HookFailures, o \in HandlerOptions :
            HandleSupabaseError(raw, o)
    \/ \E raw \in HookFailures, o \in HandlerOptions :
            HandleNetworkError(raw, o)
    \/ ClearError
    \/ \E e \in HookAppErrors, r \in BOOLEAN, h \in BOOLEAN :
            ShowErrorAlert(e, r, h)
    \/ \E i \in 1..MaxAlerts, b \in 1..2 : PressAlertButton(i, b)

Spec == Init /\ [][Next]_vars

\* One useAsyncOperation instance: execute calls may overlap, and the
\* component may dismiss or reset while they are suspended.
InitAsync ==
    /\ SurfaceInit
    /\ FormIdle
    /\ AsyncInit /\ opts \in AsyncOptions
    /\ BoundaryIdle
    /\ ParseIdle

NextAsync ==
    \/ \E id \in 1..MaxCalls : ExecuteStart(id)
    \/ \E id \in 1..MaxCalls, v \in Values : ExecuteResolve(id, v, <<>>)
    \/ \E id \in 1..MaxCalls, v \in Values, x \in HookFailures :
            ExecuteResolve(id, v, <<x>>)
    \/ \E id \in 1..MaxCalls, x \in HookFailures : ExecuteReject(id, x)
    \/ \E id \in 1..MaxCalls, x \in HookAppErrors : ExecuteReject(id, x)
    \/ AsyncClearError
    \/ Reset
    \/ \E i \in 1..MaxAlerts, b \in 1..2 : AsyncPressAlertButton(i, b)

SpecAsync == InitAsync /\ [][NextAsync]_vars

\* One mounted ErrorBoundary.
InitBoundary ==
    /\ SurfaceInit
    /\ FormIdle
    /\ AsyncInit /\ opts = DefaultOpts
    /\ ParseIdle
    /\ bstate = InitialBoundaryState
    /\ props \in BoundaryProps
    /\ phase = "render"
    /\ captured = FALSE
    /\ pendingCatch = <<>>
    /\ output = "none"
    /\ fallbackArgs = <<>>
    /\ propagated = FALSE
    /\ logged = <<>>
    /\ resets = 0
    /\ bLastOp = "init"

NextBoundary ==
    \/ RenderFallback
    \/ RenderChildren
    \/ \E v \in ThrownInRender : ChildrenThrow(v)
    \/ Propagate
    \/ ComponentDidCatch
    \/ HandleReset
    \/ ParentRender

SpecBoundary == InitBoundary /\ [][NextBoundary]_vars

\* The normalizers applied to one input each.
InitParse ==
    /\ SurfaceInit
    /\ FormIdle
    /\ AsyncInit /\ opts = DefaultOpts
    /\ BoundaryIdle
    /\ pIn \in RawInputs \cup AppErrorInputs
    /\ pCtx \in Contexts
    /\ pFn = "none"
    /\ pOut = Null
    /\ runtime = {}

NextParse ==
    \/ DoParseError
    \/ DoParseSupabaseError
    \/ DoParseNetworkError
    \/ DoToApiError

SpecParse == InitParse /\ [][NextParse]_vars

\* The guards and factories of src/types/api.ts applied to one input each.
InitApi ==
    /\ SurfaceInit
    /\ FormIdle
    /\ AsyncInit /\ opts = DefaultOpts
    /\ BoundaryIdle
    /\ pIn \in ApiErrorInputs \cup RateLimitArgs
    /\ pCtx = Undefined
    /\ pFn = "none"
    /\ pOut = Null
    /\ runtime = {}

NextApi ==
    \/ DoIsRetryableError
    \/ DoRateLimitError
    \/ DoToApiErrorOfApiError

SpecApi == InitApi /\ [][NextApi]_vars

\* The validators and the functions of the Result pattern applied to one
\* input each, and assertSuccess applied to what they built.
InitResult ==
    /\ SurfaceInit
    /\ FormIdle
    /\ AsyncInit /\ opts = DefaultOpts
    /\ BoundaryIdle
    /\ pIn \in ResultInputs
    /\ pCtx \in Contexts
    /\ pFn = "none"
    /\ pOut = Null
    /\ runtime \in Runtimes(pIn)

NextResult ==
    \/ DoValidateEmail
    \/ DoValidateUsername
    \/ DoValidatePassword
    \/ DoValidatePostContent
    \/ DoValidateCommentContent
    \/ DoValidateBio
    \/ DoValidateMediaUrl
    \/ DoSuccess
    \/ DoFailure
    \/ DoWithErrorHandler
    \/ DoAssertSuccess

SpecResult == InitResult /\ [][NextResult]_vars

\* A form component that uses useFormErrors next to useErrorHandler.
InitForm ==
    /\ SurfaceInit
    /\ FormIdle
    /\ AsyncInit /\ opts = DefaultOpts
    /\ BoundaryIdle
    /\ ParseIdle

NextForm ==
    \/ \E f \in Fields, m \in FieldMessages : SetFieldError(f, m)
    \/ \E f \in Fields : ClearFieldError(f)
    \/ ClearAllErrors
    \/ \E raw \in HookFailures : FormHandleError(raw)
    \/ ClearError

SpecForm == InitForm /\ [][NextForm]_vars

\* The composite validators applied to one input each.
InitComposite ==
    /\ SurfaceInit
    /\ FormIdle
    /\ AsyncInit /\ opts = DefaultOpts
    /\ BoundaryIdle
    /\ pIn \in CompositeInputs
    /\ pCtx = Undefined
    /\ pFn = "none"
    /\ pOut = Null
    /\ runtime \in Runtimes(pIn)

NextComposite ==
    \/ DoValidateMediaFile
    \/ DoValidatePasswordsMatch
    \/ DoValidateSignupInput
    \/ DoValidateCreatePostInput

SpecComposite == InitComposite /\ [][NextComposite]_vars

\* The user-facing text of one code and raw message, or of one AppError.
InitMessage ==
    /\ SurfaceInit
    /\ FormIdle
    /\ AsyncInit /\ opts = DefaultOpts
    /\ BoundaryIdle
    /\ pIn \in MessageInputs
    /\ pCtx = Undefined
    /\ pFn = "none"
    /\ pOut = Null
    /\ runtime = {}

NextMessage ==
    \/ DoGetUserFriendlyMessage
    \/ DoGetUserMessage

SpecMessage == InitMessage /\ [][NextMessage]_vars

\* ======================= Properties =======================
\* ---- useAsyncOperation ----
\* C1: when the operation of an execute call throws or rejects with x, the
\* promise of execute is fulfilled (x is not re-raised), the error slot holds
\* parseError(x) with hasError true, and loading is false; for the string
\* "boom" the stored error has code UNKNOWN_ERROR and message "boom".
C1_FailureIsStoredNotRaised ==
    lastOp = "executeReject" =>
        /\ lastSettle.promise = "fulfilled"
        /\ errorState.hasError
        /\ errorState.error = parseError(lastSettle.raw, opts.context)
        /\ loading = FALSE
        /\ lastSettle.raw = StringValue(S_boom) =>
              /\ errorState.error.code = "UNKNOWN_ERROR"
              /\ errorState.error.message = S_boom

C1_Witness ==
    /\ lastOp = "executeReject"
    /\ lastSettle.raw = StringValue(S_boom)
    /\ errorState.hasError
    /\ errorState.error.message = S_boom
    /\ ~loading

\* C2 as stated: when the operation of an execute call resolves with v, once
\* the promise settles data = v and the error slot is clear, whatever the
\* options (an onSuccess callback included) do.
C2_ClearAfterSuccess ==
    lastOp = "executeResolve" =>
        /\ data = lastSettle.value
        /\ errorState = ClearState

\* C2 amended: data = v in every case.  The success path does not write the
\* error slot, so the slot is as it was when the operation resolved, and it
\* is clear when no overlapping execute call stored a failure meanwhile; a
\* throw of the onSuccess callback is caught by execute's own catch block,
\* and the slot then holds parseError of the thrown value with hasError true.
C2_SuccessStoresValue ==
    lastOp = "executeResolve" =>
        /\ data = lastSettle.value
        /\ lastSettle.promise = "fulfilled"
        /\ loading = FALSE
        /\ lastSettle.thrown = <<>> => errorState = lastSettle.stateBefore
        /\ (lastSettle.thrown = <<>> /\ ~lastSettle.overlapFailed) =>
              errorState = ClearState
        /\ lastSettle.thrown # <<>> =>
              /\ errorState.hasError
              /\ errorState.error
                    = parseError(lastSettle.thrown[1], opts.context)

C2_Witness ==
    /\ lastOp = "executeResolve"
    /\ lastSettle.thrown = <<StringValue(S_boom)>>
    /\ data = "v2"
    /\ errorState.hasError
    /\ errorState.error.message = S_boom

\* C4: when clearError or reset ran while an execute call was suspended and
\* its operation then rejects with x, the outcome is still normalized and
\* stored: the surface ends set with parseError(x).
C4_LateFailureOverwritesDismiss ==
    (lastOp = "executeReject" /\ lastSettle.dismissed) =>
        /\ errorState.hasError
        /\ errorState.error # Null
        /\ errorState.error.message
              = parseError(lastSettle.raw, opts.context).message

C4_Witness ==
    /\ lastOp = "executeReject"
    /\ lastSettle.dismissed
    /\ lastSettle.stateBefore = ClearState
    /\ errorState.hasError
    /\ errorState.error.code = "UNKNOWN_ERROR"

\* ---- useErrorHandler ----
\* The normalizer each handler applies.
NormalizedBy(op, raw, context) ==
    CASE op = "handleError" -> Returned(parseError(raw, context))
      [] op = "handleSupabaseError" -> parseSupabaseError(raw, context)
      [] op = "handleNetworkError" -> parseNetworkError(raw, context)

\* C3: after any sequence of handleError, handleSupabaseError,
\* handleNetworkError and clearError calls, error is the normalized form of
\* the most recently reported failure when no clearError followed it and
\* null otherwise, and hasError is true exactly when error is not null.
C3_OnlyLatestFailureHeld ==
    /\ errorState.hasError = (errorState.error # Null)
    /\ lastOp \in {"init", "clearError"} => errorState.error = Null
    /\ lastOp \in {"handleError", "handleSupabaseError", "handleNetworkError"}
          => LET normalized == NormalizedBy(lastOp, lastRaw, lastCtx)
             IN  /\ normalized.thrown = <<>>
                 /\ errorState.error = normalized.returned[1]

\* C5: clearError leaves the surface clear whatever the state before, and
\* on a surface that is already clear it changes nothing.
C5_ClearErrorIdempotent ==
    [][ClearError =>
          /\ errorState' = ClearState
          /\ errorState = ClearState =>
                UNCHANGED <<errorState, alerts, notified, asyncVars>>]_vars

C5_Witness ==
    /\ lastOp = "clearError"
    /\ errorState = ClearState
    /\ notified # "none"

\* ---- ErrorBoundary ----
\* The boundary is contained: its render() returns a fallback.
Contained == render(bstate, props) # "children"

\* C6 as stated: whenever the children throw during render, whatever the
\* value thrown, the boundary ends contained: the value is captured,
\* hasError is true, the next render returns the fallback and the fault
\* does not leave the boundary.
C6_AnyFaultIsContained ==
    pendingCatch # <<>> =>
        /\ bstate.hasError
        /\ bstate.error = pendingCatch[1]
        /\ Contained
        /\ ~propagated

\* Steps that evaluate the children.
EvaluatesChildren == {"renderChildren", "childrenThrow", "propagate"}

\* C7: once contained, the boundary stays contained and does not evaluate
\* the children until handleReset: handleReset is the only step from
\* contained to passthrough.
C7_ContainedUntilReset ==
    [][Contained =>
          /\ ~Contained' => bLastOp' = "handleReset"
          /\ bLastOp' # bLastOp => bLastOp' \notin EvaluatesChildren
          /\ output' \in {output, render(bstate, props)}]_vars

C7_Witness ==
    /\ Contained
    /\ bLastOp = "parentRender"
    /\ bstate.errorInfo = ComponentStack
    /\ output = render(bstate, props)

\* C8 as stated: after handleReset, when the re-admitted children throw
\* again the boundary is contained again and the fault does not leave it,
\* for any number of resets.
C8_RepeatedFaultIsContained ==
    (resets >= 1 /\ pendingCatch # <<>>) =>
        /\ Contained
        /\ ~propagated

\* ---- Normalizers ----
\* The kind the precedence of C9 gives: an AppError keeps its code, a
\* failure object with a backend code goes through the backend table, a
\* message with a network phrase gives the network kinds, anything else is
\* unknown.
C9_ClaimedKind(v) ==
    IF v.t = "AppError" THEN v.code
    ELSE IF v.t \in {"Error", "object"} /\ v.code = "23505"
    THEN "DUPLICATE_ENTRY"
    ELSE IF v.t \in {"Error", "object"} /\ v.code = "23503"
    THEN "NOT_FOUND"
    ELSE IF MessageOf(v) # <<>> /\ Includes(v.message, S_timeout)
    THEN "TIMEOUT_ERROR"
    ELSE IF MessageOf(v) # <<>> /\ Includes(v.message, S_NetworkRequestFailed)
    THEN "NETWORK_ERROR"
    ELSE "UNKNOWN_ERROR"

\* C9 as stated: parseError takes the first matching rule of: taxonomy
\* error, backend failure with a recognizable code, network failure by
\* message, exception, string, anything else; a backend object with code
\* 23505 and a timeout-like message is normalized to the duplicate kind.
C9_BackendRuleBeforeNetworkRule ==
    pFn = "parseError" => pOut.code = C9_ClaimedKind(pIn)

\* C9 amended: parseError takes the first matching rule of: AppError
\* (returned unchanged), Error instance (message and the exception kept),
\* string (message = the string), object with a message property (message
\* = that message, the object kept), anything else (fixed message, the
\* value kept); every result but the first is UNKNOWN_ERROR, so a backend
\* object with code 23505 and a timeout-like message is normalized to
\* UNKNOWN_ERROR with its own message.
C9_ParseErrorPrecedence ==
    pFn = "parseError" =>
        /\ pIn.t = "AppError" => pOut = pIn
        /\ pIn.t # "AppError" =>
              /\ pOut.t = "AppError"
              /\ pOut.code = "UNKNOWN_ERROR"
              /\ pOut.severity = "ERROR"
              /\ pOut.metadata.context = pCtx
        /\ pIn.t = "Error" =>
              /\ pOut.message = IF pIn.messageType = "undefined"
                                THEN <<>> ELSE pIn.message
              /\ pOut.originalError = <<pIn>>
        /\ pIn.t = "string" => pOut.message = pIn.str
        /\ (pIn.t = "object" /\ pIn.hasMessage) =>
              /\ pOut.message = pIn.message
              /\ pOut.metadata.originalData = <<pIn>>
        /\ (pIn.t \in {"null", "undefined"}
                \/ (pIn.t = "object" /\ ~pIn.hasMessage)) =>
              /\ pOut.message = S_AnUnknownErrorOccurred
              /\ pOut.metadata.originalData = <<pIn>>

C9_Witness ==
    /\ pFn = "parseError"
    /\ pIn.t = "object"
    /\ pIn.code = "23505"
    /\ pIn.message = Join(<<S_duplicateKey, S_timeout>>)
    /\ pOut.code = "UNKNOWN_ERROR"
    /\ pOut.message = pIn.message

\* C10 as stated: parseSupabaseError tests the codes first, so every failure
\* whose code is 23505 is normalized to DUPLICATE_ENTRY (and 23503 to
\* NOT_FOUND) whatever phrases its message contains.
C10_CodeBeforePhrases ==
    pFn = "parseSupabaseError" =>
        /\ CodeOf(pIn) = "23505" =>
              /\ pOut.thrown = <<>>
              /\ pOut.returned[1].code = "DUPLICATE_ENTRY"
        /\ CodeOf(pIn) = "23503" =>
              /\ pOut.thrown = <<>>
              /\ pOut.returned[1].code = "NOT_FOUND"

\* ---- Normalizers and the closed enumeration ----
\* How the normalizer applied last ended: parseError and toApiError always
\* return.
C11_Outcome ==
    IF pFn \in {"parseSupabaseError", "parseNetworkError"} THEN pOut
    ELSE Returned(pOut)

\* C11 as stated: whatever value a normalizer (parseError,
\* parseSupabaseError, parseNetworkError, toApiError) is given, it returns
\* one error, and the error carries a code that is a member of the
\* error-code enumeration.
C11_CodeInEnumeration ==
    pFn \in {"parseError", "parseSupabaseError", "parseNetworkError",
             "toApiError"} =>
        /\ C11_Outcome.thrown = <<>>
        /\ C11_Outcome.returned[1].code \in ErrorCode \cup ApiErrorCode

\* C12 as stated: parseError returns an AppError unchanged, turns a string
\* into an UNKNOWN_ERROR whose message is the string, and gives every value
\* that is neither an AppError, an Error nor a string the fixed message
\* "An unknown error occurred" with the value retained in the metadata.
C12_FixedMessageForOtherValues ==
    pFn = "parseError" =>
        /\ pIn.t = "AppError" => pOut = pIn
        /\ pIn.t = "string" =>
              pOut.code = "UNKNOWN_ERROR" /\ pOut.message = pIn.str
        /\ pIn.t \notin {"AppError", "Error", "string"} =>
              /\ pOut.code = "UNKNOWN_ERROR"
              /\ pOut.message = S_AnUnknownErrorOccurred
              /\ pOut.metadata.originalData = <<pIn>>

\* C12 amended: parseError returns an AppError unchanged, so applying it
\* again (under any context label) changes nothing; a string gives an
\* UNKNOWN_ERROR whose message is the string; a value that is neither an
\* AppError, an Error nor a string gives an UNKNOWN_ERROR that retains the
\* value in metadata.originalData, with the value's own message when it is
\* an object that has a message property and with the fixed message
\* "An unknown error occurred" otherwise.
C12_ParseErrorByShape ==
    pFn = "parseError" =>
        /\ pIn.t = "AppError" => pOut = pIn
        /\ \A c \in Contexts : parseError(pOut, c) = pOut
        /\ pIn.t = "string" =>
              pOut.code = "UNKNOWN_ERROR" /\ pOut.message = pIn.str
        /\ pIn.t \notin {"AppError", "Error", "string"} =>
              /\ pOut.code = "UNKNOWN_ERROR"
              /\ pOut.metadata.originalData = <<pIn>>
              /\ pOut.message =
                    IF pIn.t = "object" /\ pIn.hasMessage
                    THEN pIn.message ELSE S_AnUnknownErrorOccurred

C12_Witness ==
    /\ pFn = "parseError"
    /\ pIn.t = "object"
    /\ pIn.hasMessage
    /\ pIn.message = S_boom
    /\ pOut.message = S_boom
    /\ pOut.metadata.originalData = <<pIn>>

\* C13 as stated: the network normalizer maps a failure whose message
\* contains "timeout" to the timeout kind and one whose message contains
\* "network request failed" to the network kind, timeout first, and the
\* resulting error has its retryable flag set, so that isRetryableError of
\* it is true.
C13_NetworkFailuresAreRetryable ==
    (pFn = "parseNetworkError" /\ MessageType(pIn) = "string") =>
        /\ Includes(pIn.message, S_timeout) =>
              /\ pOut.thrown = <<>>
              /\ pOut.returned[1].code = "TIMEOUT_ERROR"
              /\ isRetryableError(pOut.returned[1]) = <<TRUE>>
        /\ (~Includes(pIn.message, S_timeout)
                /\ Includes(pIn.message, S_networkRequestFailedLower)) =>
              /\ pOut.thrown = <<>>
              /\ pOut.returned[1].code = "NETWORK_ERROR"
              /\ isRetryableError(pOut.returned[1]) = <<TRUE>>

\* C13 amended: for a failure whose message is a string, parseNetworkError
\* maps a message that contains "timeout" to TIMEOUT_ERROR; otherwise one
\* that contains "Network request failed" (in this spelling) to
\* NETWORK_ERROR with the connection message; and every other message, one
\* with the lower-case phrase included, like a failure without a message,
\* to NETWORK_ERROR with the generic message and the value kept as
\* originalError.  The AppError it returns has no retryable property, so
\* isRetryableError of it yields undefined, never true.  A message that is
\* an array is searched for an element equal to the phrase, and a message
\* of any other type (null and undefined aside) makes the call throw a
\* TypeError.
C13_NetworkNormalizerKinds ==
    pFn = "parseNetworkError" =>
        LET type == MessageType(pIn)
            found(needle) ==
                \/ type = "string" /\ Includes(pIn.message, needle)
                \/ /\ type = "array"
                   /\ \E i \in DOMAIN pIn.messageItems :
                          pIn.messageItems[i] = needle
        IN  /\ (pOut.thrown = <<>>) <=>
                    type \in {"string", "array", "null", "undefined"}
            /\ pOut.thrown # <<>> =>
                  /\ pOut.returned = <<>>
                  /\ pOut.thrown[1].name = "TypeError"
            /\ pOut.thrown = <<>> =>
                  LET out == pOut.returned[1]
                  IN  /\ found(S_timeout) =>
                            /\ out.code = "TIMEOUT_ERROR"
                            /\ out.message = S_RequestTimedOut
                      /\ (~found(S_timeout)
                              /\ found(S_NetworkRequestFailed)) =>
                            /\ out.code = "NETWORK_ERROR"
                            /\ out.message = S_UnableToConnect
                      /\ (~found(S_timeout)
                              /\ ~found(S_NetworkRequestFailed)) =>
                            /\ out.code = "NETWORK_ERROR"
                            /\ out.message = S_ANetworkErrorOccurred
                            /\ pIn.t # "undefined" =>
                                  out.originalError = <<pIn>>
                      /\ "retryable" \notin DOMAIN out
                      /\ isRetryableError(out) = <<>>

C13_Witness ==
    /\ pFn = "parseNetworkError"
    /\ pIn.t = "Error"
    /\ pIn.message = Join(<<S_NetworkRequestFailed, S_timeout>>)
    /\ pOut.returned[1].code = "TIMEOUT_ERROR"
    /\ isRetryableError(pOut.returned[1]) = <<>>

\* ---- Retryability (src/types/api.ts) ----
\* C14: isRetryableError(e) is true exactly when e has a network code and
\* its retryable flag is true, or its code is RATE_LIMIT_EXCEEDED, or its
\* code is SERVER_ERROR; it is false for every validation, authentication,
\* media, database and unknown error; and rateLimitError(m, r, l, k) is
\* retryable and carries retry_after = r.
C14_RetryableClassification ==
    /\ pFn = "isRetryableError" =>
          /\ pOut \in {<<TRUE>>, <<FALSE>>}
          /\ pOut = <<TRUE>> <=>
                \/ /\ pIn.code \in {"NETWORK_ERROR", "TIMEOUT_ERROR",
                                    "CONNECTION_ERROR"}
                   /\ pIn.retryable
                \/ pIn.code = "RATE_LIMIT_EXCEEDED"
                \/ pIn.code = "SERVER_ERROR"
          /\ pIn.code \in {"VALIDATION_ERROR", "INVALID_INPUT",
                           "MISSING_REQUIRED_FIELD", "UNAUTHORIZED",
                           "FORBIDDEN", "SESSION_EXPIRED",
                           "INVALID_CREDENTIALS", "MEDIA_UPLOAD_FAILED",
                           "MEDIA_TOO_LARGE", "INVALID_MEDIA_TYPE",
                           "MEDIA_PROCESSING_FAILED", "DATABASE_ERROR",
                           "RECORD_NOT_FOUND", "DUPLICATE_RECORD",
                           "UNKNOWN_ERROR"} => pOut = <<FALSE>>
    /\ pFn = "rateLimitError" =>
          /\ pOut.code = "RATE_LIMIT_EXCEEDED"
          /\ isRetryableError(pOut) = <<TRUE>>
          /\ pOut.retry_after = pIn.retry_after

C14_Witness ==
    /\ pFn = "rateLimitError"
    /\ pIn = [message |-> S_slowDown, retry_after |-> 30, limit |-> 100,
              remaining |-> 0]
    /\ isRetryableError(pOut) = <<TRUE>>
    /\ pOut.retry_after = 30

\* ---- The Result pattern ----
\* The functions that return a Result.
ResultMakers ==
    {"success", "failure", "withErrorHandler", "validateEmail",
     "validateUsername", "validatePassword", "validatePostContent",
     "validateCommentContent", "validateBio", "validateMediaUrl"}

\* C15: for every Result built by success or failure or returned by a
\* validator or by withErrorHandler, exactly one of isSuccess and isError
\* is true.
C15_ExactlyOneArm ==
    pFn \in ResultMakers => (isSuccess(pOut) <=> ~isError(pOut))

C15_Witness ==
    /\ pFn = "withErrorHandler"
    /\ pIn.settled = Thrown(StringValue(S_boom))
    /\ isError(pOut)
    /\ ~isSuccess(pOut)
    /\ pOut.error = parseError(StringValue(S_boom), pCtx)

\* C16: assertSuccess returns the data of a success unchanged and throws
\* the very error a failure wraps; it returns nothing for a failure.
C16_UnwrapOrRaise ==
    pFn = "assertSuccess" =>
        /\ pIn.success => pOut = Returned(pIn.data)
        /\ ~pIn.success =>
              /\ pOut.thrown = <<pIn.error>>
              /\ pOut.returned = <<>>

C16_Witness ==
    /\ pFn = "assertSuccess"
    /\ ~pIn.success
    /\ pIn.error \in AppErrorInputs
    /\ pOut.thrown = <<pIn.error>>

\* ---- Field validators ----
\* The message of the first rule a user name violates, in the order
\* required, minimum length, maximum length, character set; "" when it
\* violates none.  Letters are the letters a-z and A-Z.
C19_FirstViolatedRule(s) ==
    IF s = <<>> \/ \A i \in 1..Len(s) : s[i] \in WhiteSpace
    THEN "Username is required"
    ELSE IF Len(s) < 3 THEN "Username must be at least 3 characters"
    ELSE IF Len(s) > 30 THEN "Username must not exceed 30 characters"
    ELSE IF \E i \in 1..Len(s) :
                s[i] \notin Range(LowerCase) \cup Range(UpperCase)
                            \cup Digits \cup {"_"}
    THEN "Username can only contain letters, numbers, and underscores"
    ELSE ""

\* C19: validateUsername(s) succeeds exactly when s is not empty or
\* white space only, has 3 to 30 characters and consists of letters, digits
\* and underscores; every failure is a VALIDATION_ERROR with field
\* "username" and the message of the first violated rule; "ab" fails with
\* the minimum-length message and "john_doe1" succeeds.
C19_UsernameRules ==
    pFn = "validateUsername" =>
        /\ pOut.success <=> C19_FirstViolatedRule(pIn.str) = ""
        /\ ~pOut.success =>
              /\ pOut.error.code = "VALIDATION_ERROR"
              /\ pOut.error.field = <<"username">>
              /\ pOut.error.message = C19_FirstViolatedRule(pIn.str)
        /\ pIn.str = <<"a","b">> =>
              pOut.error.message = "Username must be at least 3 characters"
        /\ pIn.str = <<"j","o","h","n","_","d","o","e","1">> => pOut.success

C19_Witness ==
    /\ pFn = "validateUsername"
    /\ pIn.str = <<"a","b">>
    /\ ~pOut.success
    /\ pOut.error.field = <<"username">>
    /\ pOut.error.message = "Username must be at least 3 characters"

\* The field validators.
FieldValidators ==
    {"validateEmail", "validateUsername", "validatePassword",
     "validatePostContent", "validateCommentContent", "validateBio",
     "validateMediaUrl"}

\* C20: for every field validator and every input it accepts, the success
\* value is the input, character for character.
C20_SuccessValueIsInput ==
    (pFn \in FieldValidators /\ pOut.success) => pOut.data = pIn.str

C20_Witness ==
    /\ pFn = "validateBio"
    /\ pIn.str = <<" ","a"," ">>
    /\ pOut.success
    /\ pOut.data = <<" ","a"," ">>

\* ---- useFormErrors ----
\* The own entries of the fields other than f are the same before and after
\* the step.
OthersUnchanged(f) ==
    \A g \in Fields \ {f} :
        /\ g \in DOMAIN fieldErrors' <=> g \in DOMAIN fieldErrors
        /\ g \in DOMAIN fieldErrors => fieldErrors'[g] = fieldErrors[g]

\* C17: setFieldError(f, m) makes m the message of f, overwriting an
\* earlier one, and leaves the entry of every other field as it was;
\* clearFieldError(f) removes the entry of f alone; and none of the
\* operations of useFormErrors changes the error slot of useErrorHandler.
C17_FieldWritesAreLocal ==
    [][/\ \A f \in Fields, m \in FieldMessages :
            SetFieldError(f, m) =>
                /\ getFieldError(fieldErrors', f) = <<m>>
                /\ OthersUnchanged(f)
                /\ UNCHANGED <<errorState, alerts, notified>>
       /\ \A f \in Fields :
            ClearFieldError(f) =>
                /\ f \notin DOMAIN fieldErrors'
                /\ OthersUnchanged(f)
                /\ UNCHANGED <<errorState, alerts, notified>>
       /\ ClearAllErrors =>
                /\ DOMAIN fieldErrors' = {}
                /\ UNCHANGED <<errorState, alerts, notified>>]_vars

\* Two fields hold different messages at once, the second written last,
\* next to an error in the slot of useErrorHandler.
C17_Witness ==
    /\ fLastOp = "setFieldError"
    /\ DOMAIN fieldErrors = {"email", "password"}
    /\ fieldErrors["email"] = "Required"
    /\ fieldErrors["password"] = "Too short"
    /\ errorState.hasError

\* C18 as stated: for every field name f, hasFieldError(f) is true exactly
\* when a message for f was stored by setFieldError and not removed since by
\* clearFieldError(f) or clearAllErrors; on a fresh or fully cleared form it
\* is false for every f.
C18_HasFieldErrorTracksStores ==
    \A f \in Fields : hasFieldError(fieldErrors, f) <=> f \in stored

\* The character classes a password lacks, as the composition message names
\* them.
C21_Missing(p) ==
    (IF \E i \in 1..Len(p) : p[i] \in Range(UpperCase)
     THEN <<>> ELSE <<"at least one uppercase letter">>)
    \o (IF \E i \in 1..Len(p) : p[i] \in Range(LowerCase)
        THEN <<>> ELSE <<"at least one lowercase letter">>)
    \o (IF \E i \in 1..Len(p) : p[i] \in Digits
        THEN <<>> ELSE <<"at least one number">>)

\* C21: validatePassword(p) succeeds exactly when p has 8 to 128
\* characters and contains an uppercase letter, a lowercase letter and a
\* digit (no special character is needed); every failure is a
\* VALIDATION_ERROR with field "password"; a length fault is reported before
\* the composition, and the composition message lists every missing class.
C21_PasswordRules ==
    pFn = "validatePassword" =>
        LET p == pIn.str
            lengthOk == 8 <= Len(p) /\ Len(p) <= 128
        IN  /\ pOut.success <=> (lengthOk /\ C21_Missing(p) = <<>>)
            /\ ~pOut.success =>
                  /\ pOut.error.code = "VALIDATION_ERROR"
                  /\ pOut.error.field = <<"password">>
            /\ p = <<>> => pOut.error.message = "Password is required"
            /\ (p # <<>> /\ Len(p) < 8) =>
                  pOut.error.message = "Password must be at least 8 characters"
            /\ Len(p) > 128 =>
                  pOut.error.message = "Password must not exceed 128 characters"
            /\ (lengthOk /\ C21_Missing(p) # <<>>) =>
                  pOut.error.message =
                      "Password must contain " \o JoinComma(C21_Missing(p))

C21_Witness ==
    /\ pFn = "validatePassword"
    /\ pIn.str = <<"1","2","3","4","5","6","7","8">>
    /\ ~pOut.success
    /\ pOut.error.message =
          "Password must contain at least one uppercase letter, at least one lowercase letter"

\* C22: validatePostContent(c) succeeds exactly when c is not empty or
\* white space only and has at most 2000 characters, validateCommentContent
\* likewise with 500, and validateBio(b) exactly when b has at most 160
\* characters, the empty string included; a failure is a VALIDATION_ERROR
\* that names the field and, for a length fault, cites the bound.
C22_ContentRules ==
    LET s == pIn.str
        blank == s = <<>> \/ \A i \in 1..Len(s) : s[i] \in WhiteSpace
    IN  /\ pFn = "validatePostContent" =>
              /\ pOut.success <=> (~blank /\ Len(s) <= 2000)
              /\ ~pOut.success =>
                    /\ pOut.error.code = "VALIDATION_ERROR"
                    /\ pOut.error.field = <<"content">>
                    /\ pOut.error.message =
                          IF blank THEN "Post content is required"
                          ELSE "Post must not exceed 2000 characters"
        /\ pFn = "validateCommentContent" =>
              /\ pOut.success <=> (~blank /\ Len(s) <= 500)
              /\ ~pOut.success =>
                    /\ pOut.error.code = "VALIDATION_ERROR"
                    /\ pOut.error.field = <<"content">>
                    /\ pOut.error.message =
                          IF blank THEN "Comment content is required"
                          ELSE "Comment must not exceed 500 characters"
        /\ pFn = "validateBio" =>
              /\ pOut.success <=> Len(s) <= 160
              /\ s = <<>> => pOut.success
              /\ ~pOut.success =>
                    /\ pOut.error.code = "VALIDATION_ERROR"
                    /\ pOut.error.field = <<"bio">>
                    /\ pOut.error.message =
                          "Bio must not exceed 160 characters"

C22_Witness ==
    /\ pFn = "validateCommentContent"
    /\ Len(pIn.str) = 501
    /\ ~pOut.success
    /\ pOut.error.message = "Comment must not exceed 500 characters"

\* ---------------- C23 ----------------
\* C23: validateMediaFile succeeds exactly when the type is an allowed image
\* type with a size of at most 10MB, or an allowed video type with a size of
\* at most 50MB, and the uri is a well-formed URL: not blank, and taken by
\* new URL of the runtime at hand.  The size is judged first
\* (a type in neither list against the 10MB bound), then the type, then the
\* URI, and the first failure is the one returned.
C23_Images == {"image/jpeg", "image/png", "image/webp", "image/heic"}

C23_Videos == {"video/mp4", "video/quicktime"}

C23_Bound(type) ==
    IF type \in C23_Videos THEN 50 * 1024 * 1024 ELSE 10 * 1024 * 1024

C23_MediaFileRules ==
    pFn = "validateMediaFile" =>
        LET tooBig == pIn.size > C23_Bound(pIn.type)
            badType == pIn.type \notin C23_Images \cup C23_Videos
            uri == validateMediaUrl(pIn.uri, runtime)
        IN  /\ pOut.success <=>
                /\ \/ pIn.type \in C23_Images /\ pIn.size <= 10 * 1024 * 1024
                   \/ pIn.type \in C23_Videos /\ pIn.size <= 50 * 1024 * 1024
                /\ uri.success
            /\ tooBig =>
                /\ ~pOut.success
                /\ pOut.error.field = <<"media">>
                /\ pOut.error.message =
                    IF pIn.type \in C23_Videos
                    THEN "File size must not exceed 50.00MB"
                    ELSE "File size must not exceed 10.00MB"
            /\ ~tooBig /\ badType =>
                /\ ~pOut.success
                /\ pOut.error.field = <<"media">>
                /\ pOut.error.message =
                    "Invalid file type. Only images and videos are allowed."
            /\ ~tooBig /\ ~badType /\ ~uri.success => pOut = uri
            /\ pOut.success =>
                pOut.data = [uri |-> pIn.uri, type |-> pIn.type,
                             name |-> pIn.name, size |-> pIn.size]

\* A file of a type in neither list, one byte over 10MB, with a malformed
\* uri: the size error is the one reported.
C23_Witness ==
    /\ pFn = "validateMediaFile"
    /\ pIn.type = "application/pdf"
    /\ pIn.size = 10 * 1024 * 1024 + 1
    /\ pIn.uri = BadUrl
    /\ ~pOut.success
    /\ pOut.error.message = "File size must not exceed 10.00MB"

\* ---------------- C24 ----------------
\* C24: validateSignupInput returns the failure of the first of
\* validateEmail, validateUsername, validatePassword, validatePasswordsMatch
\* that fails, in this order; validatePasswordsMatch fails, with a
\* validation error on field "password_confirmation", exactly when the
\* password and its confirmation differ; a success holds exactly the email,
\* the user name and the password, each equal to its input.
C24_SignupOrder ==
    /\ pFn = "validatePasswordsMatch" =>
        /\ pOut.success <=> pIn.password = pIn.password_confirmation
        /\ ~pOut.success =>
            /\ pOut.error.code = "VALIDATION_ERROR"
            /\ pOut.error.field = <<"password_confirmation">>
    /\ pFn = "validateSignupInput" =>
        LET e == validateEmail(pIn.email)
            u == validateUsername(pIn.username)
            p == validatePassword(pIn.password)
            same == pIn.password = pIn.password_confirmation
        IN  /\ ~e.success => pOut = e
            /\ e.success /\ ~u.success => pOut = u
            /\ e.success /\ u.success /\ ~p.success => pOut = p
            /\ e.success /\ u.success /\ p.success /\ ~same =>
                /\ ~pOut.success
                /\ pOut.error.code = "VALIDATION_ERROR"
                /\ pOut.error.field = <<"password_confirmation">>
            /\ e.success /\ u.success /\ p.success /\ same =>
                pOut = success([email |-> pIn.email,
                                username |-> pIn.username,
                                password |-> pIn.password])

\* A sign-up whose only fault is the confirmation "Secret124" of the
\* password "Secret123".
C24_Witness ==
    /\ pFn = "validateSignupInput"
    /\ validateEmail(pIn.email).success
    /\ validateUsername(pIn.username).success
    /\ pIn.password = <<"S","e","c","r","e","t","1","2","3">>
    /\ pIn.password_confirmation = <<"S","e","c","r","e","t","1","2","4">>
    /\ ~pOut.success
    /\ pOut.error.field = <<"password_confirmation">>

\* ---------------- C26 ----------------
\* C26: validateCreatePostInput returns the first failure among the
\* content, then the media URL when one is given and non-empty, then the
\* thumbnail URL when a media URL was given and the thumbnail is non-empty;
\* without a media URL, a thumbnail URL or a media type is neither
\* validated nor copied: the input succeeds with the content alone, even
\* with a malformed thumbnail URL.
C26_CreatePostOrder ==
    pFn = "validateCreatePostInput" =>
        LET c == validatePostContent(pIn.content)
            hasUrl == pIn.media_url # <<>> /\ pIn.media_url[1] # <<>>
            hasThumb == pIn.thumbnail_url # <<>> /\ pIn.thumbnail_url[1] # <<>>
            u == validateMediaUrl(pIn.media_url[1], runtime)
            th == validateMediaUrl(pIn.thumbnail_url[1], runtime)
        IN  /\ ~c.success => pOut = c
            /\ c.success /\ hasUrl /\ ~u.success => pOut = u
            /\ c.success /\ hasUrl /\ u.success /\ hasThumb /\ ~th.success =>
                pOut = th
            /\ c.success /\ hasUrl /\ u.success /\ (hasThumb => th.success) =>
                /\ pOut.success
                /\ pOut.data.content = pIn.content
                /\ pOut.data.media_url = pIn.media_url
                /\ pOut.data.thumbnail_url =
                       IF hasThumb THEN pIn.thumbnail_url ELSE <<>>
            /\ c.success /\ ~hasUrl =>
                pOut = success([content |-> pIn.content, media_url |-> <<>>,
                                media_type |-> <<>>, thumbnail_url |-> <<>>])

\* A post without a media URL that brings a media type and a malformed
\* thumbnail URL: accepted, and only its content is kept.
C26_Witness ==
    /\ pFn = "validateCreatePostInput"
    /\ pIn.media_url = <<>>
    /\ pIn.media_type = <<"image">>
    /\ pIn.thumbnail_url = <<BadUrl>>
    /\ pOut.success
    /\ pOut.data.media_type = <<>>
    /\ pOut.data.thumbnail_url = <<>>

\* ---------------- C27 ----------------
\* C27: whenever validateCreatePostInput succeeds, the validated object
\* carries a media URL if and only if it carries a media type.
C27_MediaPairing ==
    (pFn = "validateCreatePostInput" /\ pOut.success) =>
        (pOut.data.media_url # <<>> <=> pOut.data.media_type # <<>>)

\* ---------------- C25 ----------------
\* The raw message a text is asked for with: the second argument of
\* getUserFriendlyMessage, or the message of the AppError.
C25_Raw == IF pFn = "getUserMessage" THEN <<pIn.message>> ELSE pIn.message

\* C25 as stated: for every code, getUserFriendlyMessage(code, raw) and
\* AppError.getUserMessage return the text of the code, whatever the raw
\* message is.
C25_MessageByCodeAlone ==
    (pFn \in {"getUserFriendlyMessage", "getUserMessage"}
        /\ pIn.code \in ErrorCode) =>
        pOut = getUserFriendlyMessage(pIn.code, <<>>)

\* C25, amended: the text is fixed per code for every code except
\* VALIDATION_ERROR and UNKNOWN_ERROR; for these two codes it is the raw
\* message when that is a non-empty string, and the fixed text of the code
\* only when there is no raw message or it is empty.
C25_MessageByCodeOrRaw ==
    (pFn \in {"getUserFriendlyMessage", "getUserMessage"}
        /\ pIn.code \in ErrorCode) =>
        LET hasRaw == C25_Raw # <<>> /\ C25_Raw[1] # <<>>
            passes == pIn.code \in {"VALIDATION_ERROR", "UNKNOWN_ERROR"}
        IN  /\ passes /\ hasRaw => pOut = C25_Raw[1]
            /\ ~(passes /\ hasRaw) =>
                pOut = getUserFriendlyMessage(pIn.code, <<>>)
            /\ pIn.code = "NOT_FOUND" => pOut = M_NOT_FOUND
            /\ pIn.code = "NETWORK_ERROR" => pOut = M_NETWORK_ERROR
            /\ pIn.code = "VALIDATION_ERROR" /\ ~hasRaw =>
                pOut = M_VALIDATION_DEFAULT
            /\ pIn.code = "UNKNOWN_ERROR" /\ ~hasRaw =>
                pOut = M_UNKNOWN_DEFAULT

\* The text of a validation error with the message "bad input" is
\* "bad input".
C25_Witness ==
    /\ pFn = "getUserMessage"
    /\ pIn.code = "VALIDATION_ERROR"
    /\ pIn.message = S_badInput
    /\ pOut = S_badInput

\* ---------------- C28 ----------------
\* C28: loading is true whenever at least one execute call is suspended
\* awaiting its operation, also when several calls overlap.
C28_LoadingWhileInFlight ==
    (\E id \in 1..MaxCalls : calls[id].status = "pending") => loading = TRUE

\* ---------------- C29 ----------------
\* C29 as stated: an execute whose operation fails leaves data as it was
\* and stores the new error; a stored value gives way to null only in
\* reset().
C29_OnlyResetStoresNull ==
    [][/\ lastOp' = "executeReject" =>
            /\ data' = data
            /\ errorState'.hasError
            /\ errorState'.error = parseError(lastSettle'.raw, opts.context)
       /\ (data # NullData /\ data' = NullData) => lastOp' = "reset"]_vars

\* C29: an execute whose operation fails leaves data as it was and stores
\* the new error; a stored value gives way to null only in reset() and in
\* an execute whose operation resolves with null.
C29_FailureKeepsData ==
    [][/\ lastOp' = "executeReject" =>
            /\ data' = data
            /\ errorState'.hasError
            /\ errorState'.error = parseError(lastSettle'.raw, opts.context)
       /\ (data # NullData /\ data' = NullData) =>
            \/ lastOp' = "reset"
            \/ /\ lastOp' = "executeResolve"
               /\ lastSettle'.value = NullData]_vars

\* After a failed execute the value an earlier execute stored is still
\* exposed, next to the new error.
C29_Witness ==
    /\ lastOp = "executeReject"
    /\ data \in Values \ {NullData, Undefined}
    /\ errorState.hasError

\* ---------------- C30 ----------------
\* C30: whenever the boundary calls the custom fallback, it passes a
\* non-null errorInfo together with the captured error.
C30_FallbackGetsErrorInfo ==
    (bLastOp = "renderFallback" /\ fallbackArgs # <<>>) =>
        fallbackArgs[1].errorInfo # NoInfo

====
